---------------------------- MODULE Spec2Model ----------------------------
(***************************************************************************)
(* Career-matching serverless functions: the request handlers of           *)
(* src/unnamed/part_004 (first handler, lines 1-433; second handler,       *)
(* lines 438-997) and of src/src/main.js (first handler, lines 4-209;      *)
(* second handler, lines 222-605), with the pure functions they call.      *)
(*                                                                         *)
(* One request is followed from its arrival to the last event it leaves    *)
(* behind.  Time is the event-loop clock in milliseconds: a timer fires    *)
(* at its deadline, and an event that starts a timer happens a delay       *)
(* drawn from Delays after the clock's last reading, never after the       *)
(* deadline of a timer that is still pending.  An event that starts no     *)
(* timer may happen at any moment and leaves the clock's reading alone.    *)
(* One action is one event-loop task together with the promise             *)
(* continuations it runs.                                                  *)
(***************************************************************************)
EXTENDS Integers, Sequences, FiniteSets, TLC

VARIABLES
    handler,     \* which handler serves the request
    now,         \* clock (ms) at the latest event that set or fired a timer
    pc,          \* where the handler's asynchronous body is suspended
    body,        \* JSON.parse(req.body) and the process environment
    store,       \* what the document store holds: talents, careerPaths
    timers,      \* pending setTimeout deadlines, by timer
    inflight,    \* collaborator calls that have not settled yet
    raceSettled, \* the handler-level Promise.race has settled
    ai,          \* how the oracle race settled, and the reply's text
    rnd,         \* the Math.random() draws of the fallback scorer
    responses,   \* the res.json calls made so far
    writes,      \* updateDocument payloads the store has received
    logs         \* log / error lines that matter to the claims

vars == <<handler, now, pc, body, store, timers, inflight, raceSettled,
          ai, rnd, responses, writes, logs>>

---------------------------------------------------------------------------
(* Bounds of the model *)

\* largest catalog the store holds
MaxCatalog == 13
\* Math.random() sequences are indexed by a seed in 0..MaxSeed
MaxSeed == 2

---------------------------------------------------------------------------
(* JavaScript strings: tuples of characters *)

Min(a, b) == IF a < b THEN a ELSE b
Max(a, b) == IF a > b THEN a ELSE b

LowerChar(c) ==
    CASE c = "P" -> "p" [] c = "S" -> "s" [] c = "Q" -> "q" [] c = "L" -> "l"
      [] c = "D" -> "d" [] c = "T" -> "t" [] c = "R" -> "r" [] c = "J" -> "j"
      [] c = "F" -> "f" [] c = "H" -> "h" [] c = "A" -> "a" [] c = "E" -> "e"
      [] c = "M" -> "m" [] c = "N" -> "n" [] c = "B" -> "b"
      [] OTHER -> c

toLowerCase(s) == [i \in DOMAIN s |-> LowerChar(s[i])]

\* String.prototype.includes: sub occurs in s (the empty string always does)
strIncludes(s, sub) ==
    \E i \in 0..(Len(s) - Len(sub)) : SubSeq(s, i + 1, i + Len(sub)) = sub

\* Array.prototype.includes: strict equality with an element
arrIncludes(arr, x) == \E i \in DOMAIN arr : arr[i] = x

\* the containment test used by every overlap count
looseMatch(a, b) ==
    \/ strIncludes(toLowerCase(a), toLowerCase(b))
    \/ strIncludes(toLowerCase(b), toLowerCase(a))

\* Array.prototype.slice(0, n)
slice0(arr, n) == SubSeq(arr, 1, Min(Len(arr), n))

Python     == <<"P", "y", "t", "h", "o", "n">>
python     == <<"p", "y", "t", "h", "o", "n">>
SQL        == <<"S", "Q", "L">>
Rust       == <<"R", "u", "s", "t">>
Java       == <<"J", "a", "v", "a">>
Excel      == <<"E", "x", "c", "e", "l">>
Nursing    == <<"N", "u", "r", "s", "e">>
Data       == <<"D", "a", "t", "a">>
Money      == <<"M", "o", "n", "e", "y">>
Technology == <<"T", "e", "c", "h">>
Finance    == <<"F", "i", "n">>
Health     == <<"H", "e", "a", "l", "t", "h">>
Arts       == <<"A", "r", "t", "s">>
BSc        == <<"B", "S", "c">>
MBA        == <<"M", "B", "A">>

---------------------------------------------------------------------------
(* JavaScript numbers and the values JSON can put in a numeric field *)

Num(n)    == [t |-> "num", n |-> n]
NaN       == [t |-> "nan", n |-> 0]
Undefined == [t |-> "undefined", n |-> 0]
NumStr(n) == [t |-> "numstr", n |-> n]     \* a string such as "85"
WordStr   == [t |-> "str", n |-> 0]        \* a string such as "high"

\* ToBoolean
truthy(v) ==
    CASE v.t = "num"       -> v.n # 0
      [] v.t = "nan"       -> FALSE
      [] v.t = "undefined" -> FALSE
      [] v.t = "numstr"    -> TRUE
      [] v.t = "str"       -> TRUE

\* ToNumber
toNumber(v) ==
    CASE v.t = "num"       -> v
      [] v.t = "nan"       -> NaN
      [] v.t = "undefined" -> NaN
      [] v.t = "numstr"    -> Num(v.n)
      [] v.t = "str"       -> NaN

\* v || d
orDefault(v, d) == IF truthy(v) THEN v ELSE d

\* Math.max, Math.min: NaN when either argument converts to NaN
mathMax(a, b) ==
    IF toNumber(a).t = "nan" \/ toNumber(b).t = "nan" THEN NaN
    ELSE Num(Max(toNumber(a).n, toNumber(b).n))
mathMin(a, b) ==
    IF toNumber(a).t = "nan" \/ toNumber(b).t = "nan" THEN NaN
    ELSE Num(Min(toNumber(a).n, toNumber(b).n))

---------------------------------------------------------------------------
(* Survey fields: an array of strings, a single string, or absent *)

Arr(a)    == [t |-> "arr", a |-> a, s |-> <<>>]
Scalar(s) == [t |-> "str", a |-> <<>>, s |-> s]
Absent    == [t |-> "absent", a |-> <<>>, s |-> <<>>]

\* field || []   (the empty string is falsy too)
orEmptyArray(f) ==
    IF f.t = "absent" \/ (f.t = "str" /\ f.s = <<>>) THEN Arr(<<>>) ELSE f

\* .length of an array or of a string
lengthOf(f) == IF f.t = "arr" THEN Len(f.a) ELSE Len(f.s)

\* .includes of an array (element equality) or of a string (substring)
includesOf(f, x) ==
    IF f.t = "arr" THEN arrIncludes(f.a, x) ELSE strIncludes(f.s, x)

\* Array.isArray
isArray(f) == f.t = "arr"

---------------------------------------------------------------------------
(* The store's documents *)

PathIds == <<"p1", "p2", "p3", "p4", "p5", "p6", "p7", "p8", "p9", "p10",
            "p11", "p12", "p13", "p14", "p15", "p16">>

\* the career path documents the model's catalogs are cut from
CareerPathDoc(i) ==
    CASE i = 1 -> [id |-> PathIds[i], industry |-> Technology,
                   requiredSkills |-> <<Python, SQL>>,
                   requiredInterests |-> <<Data>>, level |-> "Entry",
                   suggestedDegrees |-> <<BSc>>]
      [] i = 2 -> [id |-> PathIds[i], industry |-> Finance,
                   requiredSkills |-> <<Excel>>,
                   requiredInterests |-> <<Money>>, level |-> "Mid",
                   suggestedDegrees |-> <<>>]
      [] i = 3 -> [id |-> PathIds[i], industry |-> Technology,
                   requiredSkills |-> <<Java>>,
                   requiredInterests |-> <<>>, level |-> "Senior",
                   suggestedDegrees |-> <<BSc>>]
      [] i \in 4..12 -> [id |-> PathIds[i], industry |-> Health,
                   requiredSkills |-> <<Nursing>>,
                   requiredInterests |-> <<>>, level |-> "Mid",
                   suggestedDegrees |-> <<MBA>>]
      [] OTHER -> [id |-> PathIds[i], industry |-> Arts,
                   requiredSkills |-> <<Rust>>,
                   requiredInterests |-> <<>>, level |-> "Entry",
                   suggestedDegrees |-> <<>>]

Catalog(n) == [i \in 1..n |-> CareerPathDoc(i)]

idsOf(paths) == {paths[i].id : i \in DOMAIN paths}

TalentDoc(stage) ==
    [id |-> "t1", careerStage |-> stage, testTaken |-> FALSE,
     skills |-> Arr(<<>>), interests |-> Arr(<<Money>>), degrees |-> Absent]

---------------------------------------------------------------------------
(* src/unnamed/part_004, first handler: the pure functions *)

EXECUTION_TIMEOUT == 25000
AI_TIMEOUT == 12000
CURRENT_PATH_TIMEOUT == 2000

\* preFilterCareerPaths, lines 248-275: the filter callback's score, doubled
\* (3, 1 and 0.5 become 6, 2 and 1) so that it stays an integer
preFilterScore2(interestedFields, currentSkills, interests, path) ==
    (IF includesOf(interestedFields, path.industry) THEN 6 ELSE 0)
    + 2 * Len(SelectSeq(currentSkills.a,
            LAMBDA skill : \E j \in DOMAIN path.requiredSkills :
                              looseMatch(path.requiredSkills[j], skill)))
    + Len(SelectSeq(interests.a,
            LAMBDA interest : \E j \in DOMAIN path.requiredInterests :
                              looseMatch(path.requiredInterests[j], interest)))

\* a filter that keeps the matching paths and never tops up to the floor
preFilterWithoutFloor(surveyResponses, careerPaths) ==
    LET interestedFields == orEmptyArray(surveyResponses.interestedFields)
        currentSkills    == orEmptyArray(surveyResponses.currentSkills)
        interests        == orEmptyArray(surveyResponses.interests)
    IN  [threw |-> FALSE,
         val |-> slice0(SelectSeq(careerPaths,
                     LAMBDA path : preFilterScore2(interestedFields,
                                      currentSkills, interests, path) > 0), 25)]

\* preFilterCareerPaths: [threw, val]; .filter on a string is a TypeError
preFilterCareerPaths(surveyResponses, careerPaths) ==
    LET interestedFields == orEmptyArray(surveyResponses.interestedFields)
        currentSkills    == orEmptyArray(surveyResponses.currentSkills)
        interests        == orEmptyArray(surveyResponses.interests)
        filtered == SelectSeq(careerPaths,
                      LAMBDA path : preFilterScore2(interestedFields,
                                       currentSkills, interests, path) > 0)
        remaining == SelectSeq(careerPaths,
                      LAMBDA path : ~arrIncludes(filtered, path))
        padded == IF Len(filtered) < 12
                  THEN filtered \o slice0(remaining, 12 - Len(filtered))
                  ELSE filtered
    IN  IF /\ lengthOf(interestedFields) = 0
           /\ lengthOf(currentSkills) = 0
           /\ lengthOf(interests) = 0
        THEN [threw |-> FALSE, val |-> slice0(careerPaths, 25)]
        ELSE IF Len(careerPaths) > 0
                /\ (~isArray(currentSkills) \/ ~isArray(interests))
        THEN [threw |-> TRUE, val |-> <<>>]
        ELSE [threw |-> FALSE, val |-> slice0(padded, 25)]

\* the number of required entries some user entry matches (lines 342-346)
overlapCount(required, userField) ==
    Len(SelectSeq(required,
          LAMBDA r : \E j \in DOMAIN userField.a : looseMatch(userField.a[j], r)))

\* lines 372-379
stageLevelBonus(careerStage, level) ==
    IF \/ (careerStage = "Pathfinder" /\ level = "Entry")
       \/ (careerStage = "Trailblazer" /\ level \in {"Entry", "Mid"})
       \/ (careerStage = "Horizon Changer" /\ level \in {"Mid", "Senior"})
    THEN 10 ELSE 0

\* Math.round(score + Math.random() * 5) - score for an integer score: 0..5
\* draw k of the sequence with the given seed
roundedJitter(seed, k) == (seed * k) % 6

\* line 388: .length of 'Growth mindset', which concat appends to an array
\* as one entry and to a string as its characters
GrowthMindsetLen == 14

\* lines 337-397: one scored path; jitter is the rounded random term; a
\* list (or the string in its place) is given by its length
scorePath(surveyResponses, talent, path, jitter) ==
    LET currentSkills == orEmptyArray(surveyResponses.currentSkills)
        interests     == orEmptyArray(surveyResponses.interests)
        fields        == orEmptyArray(surveyResponses.interestedFields)
        skillsToLearn == orEmptyArray(surveyResponses.skillsToLearn)
        score == 25 * overlapCount(path.requiredSkills, currentSkills)
               + 15 * overlapCount(path.requiredSkills, skillsToLearn)
               + 20 * overlapCount(path.requiredInterests, interests)
               + (IF includesOf(fields, path.industry) THEN 30 ELSE 0)
               + stageLevelBonus(talent.careerStage, path.level)
               + jitter
    IN  [careerPath |-> path.id,
         matchScore |-> Num(Min(score, 90)),
         strengths |-> IF isArray(currentSkills)
                       THEN Min(Len(currentSkills.a), 2) + 1
                       ELSE Min(Len(currentSkills.s), 2) + GrowthMindsetLen,
         developmentAreas |-> 2,
         recommendations |-> 4]

\* b.matchScore - a.matchScore, with NaN read as 0 by the sort
compareDesc(a, b) ==
    IF a.matchScore.t = "nan" \/ b.matchScore.t = "nan" THEN 0
    ELSE b.matchScore.n - a.matchScore.n

\* one stable insertion: x goes after every element it does not precede
RECURSIVE insertSorted(_, _)
insertSorted(sorted, x) ==
    IF sorted = <<>> THEN <<x>>
    ELSE IF compareDesc(Head(sorted), x) > 0
         THEN <<x>> \o sorted
         ELSE <<Head(sorted)>> \o insertSorted(Tail(sorted), x)

\* Array.prototype.sort with a consistent comparator: stable
RECURSIVE stableSortDesc(_)
stableSortDesc(list) ==
    IF list = <<>> THEN <<>>
    ELSE insertSorted(stableSortDesc(SubSeq(list, 1, Len(list) - 1)),
                      list[Len(list)])

\* generateEnhancedFallbackMatches: [threw, val]; .some on a string is a
\* TypeError, raised when a path has an entry to compare with
generateEnhancedFallbackMatches(surveyResponses, careerPaths, talent, seed) ==
    LET currentSkills == orEmptyArray(surveyResponses.currentSkills)
        interests     == orEmptyArray(surveyResponses.interests)
        skillsToLearn == orEmptyArray(surveyResponses.skillsToLearn)
        throws == \E i \in DOMAIN careerPaths :
                    \/ /\ Len(careerPaths[i].requiredSkills) > 0
                       /\ (~isArray(currentSkills) \/ ~isArray(skillsToLearn))
                    \/ /\ Len(careerPaths[i].requiredInterests) > 0
                       /\ ~isArray(interests)
        scoredPaths == [i \in DOMAIN careerPaths |->
                          scorePath(surveyResponses, talent, careerPaths[i],
                                    roundedJitter(seed, i))]
    IN  IF throws THEN [threw |-> TRUE, val |-> <<>>]
        ELSE [threw |-> FALSE, val |-> slice0(stableSortDesc(scoredPaths), 6)]

---------------------------------------------------------------------------
(* The oracle's text, as tokens, and JSON.parse *)

\* what one candidate object of the oracle's JSON carries; careerPathId is
\* the candidate's path reference (the key is pathId in the first handler
\* of main.js); a list is given by its length, -1 when it is no list
Fields(id, score) ==
    [careerPathId |-> id, matchScore |-> score, reasoning |-> TRUE,
     strengths |-> 2, developmentAreas |-> 2, recommendations |-> 3]
\* a candidate with five strengths, four development areas and six
\* recommendations
LongFields(id, score) ==
    [Fields(id, score) EXCEPT !.strengths = 5, !.developmentAreas = 4,
                              !.recommendations = 6]
NoFields ==
    [careerPathId |-> "", matchScore |-> Undefined, reasoning |-> FALSE,
     strengths |-> -1, developmentAreas |-> -1, recommendations |-> -1]

Tok(k)        == [k |-> k, key |-> "", m |-> NoFields]
Prose         == Tok("prose")         \* words, no brace, bracket or fence
FenceOpen     == Tok("fenceOpen")     \* ```json and a line break
FenceClose    == Tok("fenceClose")    \* a line break and ```
LBrace        == Tok("{")
RBrace        == Tok("}")
LBracket      == Tok("[")
RBracket      == Tok("]")
Comma         == Tok(",")
StringLit     == Tok("string")        \* a JSON string
Key(name)     == [k |-> "key", key |-> name, m |-> NoFields]   \* "name":
Members(m)    == [k |-> "members", key |-> "", m |-> m]  \* "k": v, "k": v

\* parsed JSON values
JObject(keys, vals, m) == [t |-> "object", keys |-> keys, vals |-> vals, m |-> m]
JArray(items)          == [t |-> "array", items |-> items]
JString                == [t |-> "string"]
JUndefined             == [t |-> "undefined"]

ParseFail    == [ok |-> FALSE, pos |-> 0, val |-> JUndefined]
ParseOk(p, v) == [ok |-> TRUE, pos |-> p, val |-> v]

RECURSIVE parseValue(_, _)
RECURSIVE parseObject(_, _, _, _)
RECURSIVE parseArray(_, _, _, _)

\* a JSON value starting at token i
parseValue(toks, i) ==
    IF i > Len(toks) THEN ParseFail
    ELSE CASE toks[i].k = "{" ->
                parseObject(toks, i + 1, JObject(<<>>, <<>>, NoFields), "first")
           [] toks[i].k = "[" -> parseArray(toks, i + 1, <<>>, "first")
           [] toks[i].k = "string" -> ParseOk(i + 1, JString)
           [] OTHER -> ParseFail

\* after "{"; expect is "first" (member or close), "member", or "next"
\* (comma or close): a comma must be followed by a member
parseObject(toks, i, acc, expect) ==
    IF i > Len(toks) THEN ParseFail
    ELSE CASE toks[i].k = "}" /\ expect \in {"first", "next"} ->
                ParseOk(i + 1, acc)
           [] toks[i].k = "," /\ expect = "next" ->
                parseObject(toks, i + 1, acc, "member")
           [] toks[i].k = "members" /\ expect \in {"first", "member"} ->
                parseObject(toks, i + 1,
                            JObject(acc.keys, acc.vals, toks[i].m), "next")
           [] toks[i].k = "key" /\ expect \in {"first", "member"} ->
                LET v == parseValue(toks, i + 1)
                IN  IF v.ok
                    THEN parseObject(toks, v.pos,
                            JObject(Append(acc.keys, toks[i].key),
                                    Append(acc.vals, v.val), acc.m), "next")
                    ELSE ParseFail
           [] OTHER -> ParseFail

\* after "["
parseArray(toks, i, acc, expect) ==
    IF i > Len(toks) THEN ParseFail
    ELSE CASE toks[i].k = "]" /\ expect \in {"first", "next"} ->
                ParseOk(i + 1, JArray(acc))
           [] toks[i].k = "," /\ expect = "next" ->
                parseArray(toks, i + 1, acc, "member")
           [] toks[i].k \in {"{", "[", "string"}
              /\ expect \in {"first", "member"} ->
                LET v == parseValue(toks, i)
                IN  IF v.ok
                    THEN parseArray(toks, v.pos, Append(acc, v.val), "next")
                    ELSE ParseFail
           [] OTHER -> ParseFail

\* JSON.parse: one value and nothing else; [ok, val]
JSONparse(toks) ==
    LET r == parseValue(toks, 1)
    IN  IF r.ok /\ r.pos = Len(toks) + 1 THEN r ELSE ParseFail

\* obj[name] of a parsed value (the last duplicate key wins)
getKey(v, name) ==
    IF v.t # "object" THEN JUndefined
    ELSE LET hits == {i \in DOMAIN v.keys : v.keys[i] = name}
         IN  IF hits = {} THEN JUndefined
             ELSE v.vals[CHOOSE i \in hits : \A j \in hits : j <= i]

\* text.replace(/```json\n?|\n?```/g, '').trim()
stripFences(toks) ==
    SelectSeq(toks, LAMBDA tk : tk.k \notin {"fenceOpen", "fenceClose"})

\* text.match(/\{[\s\S]*\}/): from the first "{" to the last "}"
matchBraces(toks) ==
    LET opens  == {i \in DOMAIN toks : toks[i].k = "{"}
        first  == CHOOSE i \in opens : \A j \in opens : i <= j
        closes == {i \in DOMAIN toks : toks[i].k = "}" /\ i > first}
        last   == CHOOSE i \in closes : \A j \in closes : j <= i
    IN  IF opens = {} THEN [found |-> FALSE, val |-> <<>>]
        ELSE IF closes = {} THEN [found |-> FALSE, val |-> <<>>]
        ELSE [found |-> TRUE, val |-> SubSeq(toks, first, last)]

---------------------------------------------------------------------------
(* src/unnamed/part_004, first handler: generateOptimizedAIMatches *)

\* the oracle's reply: result.text is a string or undefined
Text(toks) == [defined |-> TRUE, toks |-> toks]
NoText     == [defined |-> FALSE, toks |-> <<>>]

\* lines 130-131, 294-329: .join on a string is a TypeError
buildOptimizedContextPromptThrows(surveyResponses) ==
    \/ ~isArray(orEmptyArray(surveyResponses.currentSkills))
    \/ ~isArray(orEmptyArray(surveyResponses.skillsToLearn))
    \/ ~isArray(orEmptyArray(surveyResponses.interests))
    \/ ~isArray(orEmptyArray(surveyResponses.interestedFields))

\* lines 183-197: the matches array of the reply, or a throw
parseAIResponse(text) ==
    LET cleanResponse == stripFences(text.toks)
        jsonMatch == matchBraces(cleanResponse)
        parsed == JSONparse(jsonMatch.val)
        matches == getKey(parsed.val, "matches")
    IN  IF ~text.defined THEN [threw |-> TRUE, val |-> <<>>]
        ELSE IF ~jsonMatch.found THEN [threw |-> TRUE, val |-> <<>>]
        ELSE IF ~parsed.ok THEN [threw |-> TRUE, val |-> <<>>]
        ELSE IF matches.t # "array" THEN [threw |-> TRUE, val |-> <<>>]
        ELSE [threw |-> FALSE, val |-> matches.items]

\* line 207
clampScore(matchScore) ==
    mathMin(mathMax(orDefault(matchScore, Num(50)), Num(0)), Num(100))

\* lines 209-211: a list is cut to n entries, anything else gets the default
sliceOrDefault(len, n, defaultLen) == IF len >= 0 THEN Min(len, n) ELSE defaultLen

\* line 202: careerPaths.find(path => path.$id === match.careerPathId)
findPath(careerPaths, match) ==
    IF match.t # "object" THEN {}
    ELSE {i \in DOMAIN careerPaths : careerPaths[i].id = match.m.careerPathId}

\* lines 201-213: the map callback on a match that names a known path
enrichMatch(careerPaths, match) ==
    [careerPath |-> match.m.careerPathId,
     matchScore |-> clampScore(match.m.matchScore),
     strengths |-> sliceOrDefault(match.m.strengths, 3, 1),
     developmentAreas |-> sliceOrDefault(match.m.developmentAreas, 3, 2),
     recommendations |-> sliceOrDefault(match.m.recommendations, 4, 3)]

\* lines 200-214: map and filter(Boolean), before the sort
enrichAll(careerPaths, matches) ==
    LET known == SelectSeq(matches, LAMBDA mt : findPath(careerPaths, mt) # {})
    IN  [i \in DOMAIN known |-> enrichMatch(careerPaths, known[i])]

\* the comparator of line 215 is consistent on this list
consistentComparator(list) ==
    \/ \A i \in DOMAIN list : list[i].matchScore.t # "nan"
    \/ \A i, j \in DOMAIN list : compareDesc(list[i], list[j]) = 0

orderings(n) ==
    {f \in [1..n -> 1..n] : \A i, j \in 1..n : i # j => f[i] # f[j]}

\* line 215: .sort((a, b) => b.matchScore - a.matchScore); with an
\* inconsistent comparator the order is implementation-defined
sortOutcomes(list) ==
    IF consistentComparator(list) THEN {stableSortDesc(list)}
    ELSE {[i \in DOMAIN list |-> list[f[i]]] : f \in orderings(Len(list))}

\* a matcher that never tops up
noSupplement(enrichedMatches, fallbackMatches) == enrichedMatches

\* lines 219-228: fewer than 4 matches are topped up from the fallback
supplement(enrichedMatches, fallbackMatches) ==
    LET existingIds == {enrichedMatches[i].careerPath : i \in DOMAIN enrichedMatches}
        additionalMatches ==
            SelectSeq(fallbackMatches, LAMBDA m : m.careerPath \notin existingIds)
    IN  IF Len(enrichedMatches) < 4
        THEN enrichedMatches
             \o slice0(additionalMatches, 4 - Len(enrichedMatches))
        ELSE enrichedMatches

\* line 230
topMatches(enrichedMatches) == slice0(enrichedMatches, 6)

\* lines 232-235: the catch block
catchAIFailure(surveyResponses, careerPaths, talent, seed) ==
    generateEnhancedFallbackMatches(surveyResponses, careerPaths, talent, seed)

\* lines 182-235, once the race of line 182 has settled: the possible
\* [threw, val] results.  settled is "reply", "reject" or "timeout"
afterAIRace(settled, text, talent, surveyResponses, careerPaths, seed) ==
    LET fallback == catchAIFailure(surveyResponses, careerPaths, talent, seed)
        parsed == parseAIResponse(text)
    IN  IF settled # "reply" \/ parsed.threw THEN {fallback}
        ELSE {IF Len(sorted) < 4 /\ fallback.threw THEN fallback
              ELSE [threw |-> FALSE,
                    val |-> topMatches(supplement(sorted, fallback.val))]
              : sorted \in sortOutcomes(enrichAll(careerPaths, parsed.val))}

---------------------------------------------------------------------------
(* The environment: requests, store contents, delays, oracle replies *)

\* a collaborator settles this long after the previous event
ShortDelay == 1000
LongDelay == 13000
Delays == {ShortDelay, LongDelay}

NoTimer == 0 - 1
NoTimers == [exec |-> NoTimer, ai |-> NoTimer, currentPath |-> NoTimer]

pendingDeadlines == {timers[k] : k \in DOMAIN timers} \ {NoTimer}

\* an event may happen at time t unless a pending timer is due before t
mayHappenAt(t) == \A dl \in pendingDeadlines : t <= dl

\* the timer is pending and no other pending timer is due before it
due(k) == timers[k] # NoTimer /\ mayHappenAt(timers[k])

Survey(cs, stl, ints, flds, cp) ==
    [currentSkills |-> cs, skillsToLearn |-> stl, interests |-> ints,
     interestedFields |-> flds, currentPath |-> cp]

Surveys ==
    { Survey(Arr(<<>>), Arr(<<>>), Arr(<<>>), Arr(<<>>), ""),
      Survey(Absent, Absent, Absent, Absent, "p2"),
      Survey(Arr(<<python>>), Arr(<<Rust>>), Arr(<<Data>>), Arr(<<Technology>>), "p2"),
      Survey(Arr(<<Python, Excel, Java>>), Arr(<<>>), Arr(<<>>), Arr(<<>>), ""),
      Survey(Scalar(Python), Absent, Absent, Arr(<<Technology>>), "") }

NoSurvey == Survey(Absent, Absent, Absent, Absent, "")

\* process.env.NODE_ENV: 'development', another value, or unset
NodeEnvs == {"development", "production", ""}

\* a catch block that puts the stack in every failure
detailsAlways(nodeEnv) == "stack"

\* process.env.NODE_ENV === 'development' ? err.stack : undefined
details(nodeEnv) == IF nodeEnv = "development" THEN "stack" ELSE "undefined"

\* JSON.parse(req.body) of the first handler of part_004
\* with process.env.NODE_ENV as the request meets it
Bodies4 ==
    {[talentId |-> "t1", hasSurvey |-> TRUE, surveyResponses |-> sv,
      nodeEnv |-> "production"] : sv \in Surveys}
    \cup {[talentId |-> "", hasSurvey |-> TRUE, surveyResponses |-> NoSurvey,
           nodeEnv |-> e] : e \in NodeEnvs}
    \cup {[talentId |-> "t1", hasSurvey |-> TRUE, surveyResponses |-> NoSurvey,
           nodeEnv |-> e] : e \in {"development", ""}}
    \cup {[talentId |-> "t1", hasSurvey |-> FALSE, surveyResponses |-> NoSurvey,
           nodeEnv |-> "production"]}

\* catalog sizes: empty, below the top-up of 4, between 4 and 6, above 6,
\* and above the pre-filter's floor of 12; the talent may be missing, and
\* a stored talent may lack its careerStage
CatalogSizes == {n \in 0..MaxCatalog : n \in {0, 1, 3, 5, 7} \/ n = MaxCatalog}

\* three paths that ask for no skill and no interest
PlainCatalog ==
    [i \in 1..3 |-> [CareerPathDoc(i) EXCEPT !.requiredSkills = <<>>,
                                             !.requiredInterests = <<>>]]

Stores ==
    {[talents |-> tl, careerPaths |-> Catalog(n)] :
        tl \in {<<>>, <<TalentDoc("Pathfinder")>>}, n \in CatalogSizes}
    \cup {[talents |-> <<TalentDoc("")>>, careerPaths |-> Catalog(7)]}
    \cup {[talents |-> <<TalentDoc("Pathfinder")>>, careerPaths |-> PlainCatalog]}

\* {"matches": [ ... ]} with the given candidates
RECURSIVE elements(_)
elements(ms) ==
    IF ms = <<>> THEN <<>>
    ELSE <<LBrace, Members(Head(ms)), RBrace>>
         \o (IF Len(ms) > 1 THEN <<Comma>> ELSE <<>>)
         \o elements(Tail(ms))
matchesJson(ms) ==
    <<LBrace, Key("matches"), LBracket>> \o elements(ms) \o <<RBracket, RBrace>>

\* prose, then a fenced payload whose only candidate has a trailing comma
\* before the closing bracket and a score of 150
malformedText ==
    Text(<<Prose, FenceOpen, LBrace, Key("matches"), LBracket,
           LBrace, Members(Fields("p1", Num(150))), Comma, RBrace, Comma,
           RBracket, RBrace, FenceClose>>)

\* replies of the oracle to the first handler of part_004
OracleTexts4 ==
    { NoText,
      malformedText,
      Text(<<Prose>>),
      Text(<<LBrace, Key("advice"), StringLit, RBrace>>),
      Text(<<LBrace, Key("matches"), StringLit, RBrace>>),
      Text(<<LBrace, Key("matches"), LBracket,
             LBrace, Members(Fields("p1", Num(90))), RBrace, Comma,
             RBracket, RBrace>>),
      Text(matchesJson(<<>>)),
      Text(matchesJson(<<LongFields("p1", Num(92)), Fields("p2", Num(85)),
                         Fields("p3", Num(80)), Fields("p4", Num(75)),
                         Fields("p5", Num(70)), Fields("p6", Num(65)),
                         Fields("p7", Num(60))>>)),
      Text(<<Prose, FenceOpen>>
           \o matchesJson(<<Fields("p1", Num(150)), Fields("ghost", Num(99)),
                            Fields("p2", Num(-5))>>)
           \o <<FenceClose>>),
      Text(matchesJson(<<Fields("p1", Num(70)), Fields("p2", WordStr),
                         Fields("p3", Num(0))>>)),
      Text(matchesJson(<<Fields("p2", NumStr(85)), Fields("p1", Undefined),
                         Fields("p13", Num(99)), Fields("p3", Num(40))>>)),
      Text(matchesJson(<<Fields("p1", Num(60)), Fields("p1", Num(95))>>)) }

NoReply == [settled |-> "none", text |-> NoText]

Response(status, success, err, matches) ==
    [status |-> status, success |-> success, error |-> err,
     matches |-> matches, totalPaths |-> Len(store.careerPaths),
     details |-> "undefined"]

\* lines 64-69: the envelope of the catch block for the request with body b
CatchResponseOf(b, err) ==
    [Response(500, FALSE, err, <<>>) EXCEPT !.details = details(b.nodeEnv)]

\* lines 64-69: the envelope of the handler's catch block
CatchResponse(err) == CatchResponseOf(body, err)

---------------------------------------------------------------------------
(* src/unnamed/part_004, first handler: the request *)

Seeds == 0..MaxSeed
NoSeed == 0 - 1

Init4 ==
    /\ handler = "part_004#1"
    /\ now = 0
    /\ pc = "start"
    /\ body \in Bodies4
    /\ store \in Stores
    /\ timers = NoTimers
    /\ inflight = {}
    /\ raceSettled = FALSE
    /\ ai = NoReply
    /\ rnd = NoSeed
    /\ responses = <<>>
    /\ writes = <<>>
    /\ logs = {}

\* a race that hands on every settlement
raceAlwaysDelivers(settled) == TRUE

\* line 53: Promise.race hands on the first settlement only
raceDelivers(settled) == ~settled

\* lines 58 and 64-69: the envelope for what executeCareerMatching settled with
envelopeOf(b, result) ==
    IF result.threw
    THEN CatchResponseOf(b, result.err)
    ELSE Response(200, TRUE, "", result.val)

envelope4(result) == envelopeOf(body, result)

\* lines 53-70: executeCareerMatching settles
finishExecution(result) ==
    /\ pc' = "done"
    /\ IF raceDelivers(raceSettled)
       THEN /\ raceSettled' = TRUE
            /\ responses' = Append(responses, envelope4(result))
       ELSE UNCHANGED <<raceSettled, responses>>

\* a matcher whose checks of the reads return an empty result instead of throwing
emptyResult(err) == [threw |-> FALSE, val |-> <<>>, err |-> ""]

failed(err) == [threw |-> TRUE, val |-> <<>>, err |-> err]

\* the result of generateOptimizedAIMatches as executeCareerMatching sees it
\* (lines 112-121): a throw of the fallback is a TypeError
matched(r) ==
    IF r.threw THEN failed("TypeError") ELSE [threw |-> FALSE, val |-> r.val, err |-> ""]

\* lines 124-182 at time t: the work before the oracle is awaited
startGenerate(tm, fl, t) ==
    LET sr == body.surveyResponses
        pre == preFilterCareerPaths(sr, store.careerPaths)
    IN  IF pre.threw \/ buildOptimizedContextPromptThrows(sr)
        THEN \E seed \in Seeds :
               /\ rnd' = seed
               /\ ai' = [settled |-> "skipped", text |-> NoText]
               /\ timers' = tm
               /\ inflight' = fl
               /\ finishExecution(matched(
                    catchAIFailure(sr, store.careerPaths, store.talents[1], seed)))
        ELSE /\ timers' = [tm EXCEPT !.ai = t + AI_TIMEOUT]
             /\ inflight' = fl \cup {"generateContent"}
             /\ pc' = "ai"
             /\ UNCHANGED <<rnd, ai, raceSettled, responses>>

\* lines 33-50
Request4 ==
    /\ handler = "part_004#1"
    /\ pc = "start"
    /\ IF body.talentId = "" \/ ~body.hasSurvey
       THEN /\ responses' = Append(responses,
                   Response(400, FALSE, "Missing required parameters", <<>>))
            /\ pc' = "done"
            /\ UNCHANGED <<timers, inflight>>
       ELSE /\ timers' = [timers EXCEPT !.exec = now + EXECUTION_TIMEOUT]
            /\ inflight' = {"listDocuments"}
            /\ pc' = "fetch"
            /\ UNCHANGED responses
    /\ UNCHANGED <<handler, now, body, store, raceSettled, ai, rnd, writes, logs>>

\* lines 75-114: both reads have resolved
ListDocumentsResolve4 ==
    \E d \in Delays :
    /\ handler = "part_004#1"
    /\ pc = "fetch"
    /\ "listDocuments" \in inflight
    /\ mayHappenAt(now + d)
    /\ now' = now + d
    /\ IF Len(store.careerPaths) = 0
       THEN /\ finishExecution(failed("No career paths available"))
            /\ inflight' = inflight \ {"listDocuments"}
            /\ UNCHANGED <<timers, ai, rnd, writes>>
       ELSE IF Len(store.talents) = 0
       THEN /\ finishExecution(failed("Talent not found"))
            /\ inflight' = inflight \ {"listDocuments"}
            /\ UNCHANGED <<timers, ai, rnd, writes>>
       ELSE /\ writes' = Append(writes, [testTaken |-> TRUE])
            /\ IF body.surveyResponses.currentPath # ""
               THEN /\ pc' = "currentPath"
                    /\ timers' = [timers EXCEPT
                                    !.currentPath = now + d + CURRENT_PATH_TIMEOUT]
                    /\ inflight' = (inflight \ {"listDocuments"})
                                   \cup {"updateDocument", "getDocument"}
                    /\ UNCHANGED <<ai, rnd, raceSettled, responses>>
               ELSE startGenerate(timers,
                        (inflight \ {"listDocuments"}) \cup {"updateDocument"},
                        now + d)
    /\ UNCHANGED <<handler, body, store, logs>>

\* line 75: one of the reads has rejected
ListDocumentsReject4 ==
    /\ handler = "part_004#1"
    /\ pc = "fetch"
    /\ "listDocuments" \in inflight
    /\ inflight' = inflight \ {"listDocuments"}
    /\ finishExecution(failed("store error"))
    /\ UNCHANGED <<handler, now, body, store, timers, ai, rnd, writes, logs>>

\* lines 100-114: getDocument settles before its 2 s timer
GetDocumentSettle4 ==
    \E d \in Delays, ok \in BOOLEAN :
    /\ handler = "part_004#1"
    /\ pc = "currentPath"
    /\ "getDocument" \in inflight
    /\ mayHappenAt(now + d)
    /\ now' = now + d
    /\ logs' = IF ok THEN logs ELSE logs \cup {"Could not fetch current career path"}
    /\ startGenerate(timers, inflight \ {"getDocument"}, now + d)
    /\ UNCHANGED <<handler, body, store, writes>>

\* line 104: the 2 s timer fires
CurrentPathTimeout4 ==
    /\ handler = "part_004#1"
    /\ due("currentPath")
    /\ now' = timers.currentPath
    /\ IF pc = "currentPath"
       THEN /\ logs' = logs \cup {"Could not fetch current career path"}
            /\ startGenerate([timers EXCEPT !.currentPath = NoTimer], inflight,
                             timers.currentPath)
       ELSE /\ timers' = [timers EXCEPT !.currentPath = NoTimer]
            /\ UNCHANGED <<pc, inflight, raceSettled, ai, rnd, responses, logs>>
    /\ UNCHANGED <<handler, body, store, writes>>

\* whether lines 182-235 reach the fallback scorer
usesFallback(settled, text, careerPaths) ==
    \/ settled # "reply"
    \/ parseAIResponse(text).threw
    \/ Len(enrichAll(careerPaths, parseAIResponse(text).val)) < 4

\* lines 168-236: the oracle replies or rejects before the 12 s timer
GenerateContentSettle4 ==
    /\ handler = "part_004#1"
    /\ pc = "ai"
    /\ "generateContent" \in inflight
    /\ \E settled \in {"reply", "reject"} :
       \E text \in IF settled = "reply" THEN OracleTexts4 ELSE {NoText} :
       \E seed \in IF usesFallback(settled, text, store.careerPaths)
                   THEN Seeds ELSE {NoSeed} :
       \E r \in afterAIRace(settled, text, store.talents[1],
                            body.surveyResponses, store.careerPaths, seed) :
         /\ inflight' = inflight \ {"generateContent"}
         /\ ai' = [settled |-> settled, text |-> text]
         /\ rnd' = seed
         /\ finishExecution(matched(r))
    /\ UNCHANGED <<handler, now, body, store, timers, writes, logs>>

\* lines 178-182, 232-235: the 12 s timer fires
AITimeout4 ==
    /\ handler = "part_004#1"
    /\ due("ai")
    /\ now' = timers.ai
    /\ timers' = [timers EXCEPT !.ai = NoTimer]
    /\ IF pc = "ai"
       THEN \E seed \in Seeds :
            \E r \in afterAIRace("timeout", NoText, store.talents[1],
                                 body.surveyResponses, store.careerPaths, seed) :
              /\ ai' = [settled |-> "timeout", text |-> NoText]
              /\ rnd' = seed
              /\ finishExecution(matched(r))
       ELSE UNCHANGED <<pc, ai, rnd, raceSettled, responses>>
    /\ UNCHANGED <<handler, body, store, inflight, writes, logs>>

\* lines 46-48, 53, 60-70: the 25 s timer fires
ExecutionTimeout4 ==
    /\ handler = "part_004#1"
    /\ due("exec")
    /\ now' = timers.exec
    /\ timers' = [timers EXCEPT !.exec = NoTimer]
    /\ IF raceDelivers(raceSettled)
       THEN /\ raceSettled' = TRUE
            /\ responses' = Append(responses,
                   CatchResponse("Function execution timeout"))
       ELSE UNCHANGED <<raceSettled, responses>>
    /\ UNCHANGED <<handler, pc, body, store, inflight, ai, rnd, writes, logs>>

\* lines 95-96: the background write settles
UpdateDocumentSettle4 ==
    \E ok \in BOOLEAN :
    /\ handler = "part_004#1"
    /\ "updateDocument" \in inflight
    /\ inflight' = inflight \ {"updateDocument"}
    /\ store' = IF ok THEN [store EXCEPT !.talents[1].testTaken = TRUE] ELSE store
    /\ logs' = IF ok THEN logs ELSE logs \cup {"Failed to update talent"}
    /\ UNCHANGED <<handler, now, pc, body, timers, raceSettled, ai, rnd, responses, writes>>

\* lines 102-105, 182: a call settles after its race was decided by the timer
LateSettle4 ==
    \E c \in inflight :
    /\ handler = "part_004#1"
    /\ \/ c = "getDocument" /\ pc # "currentPath"
       \/ c = "generateContent" /\ pc # "ai"
    /\ inflight' = inflight \ {c}
    /\ UNCHANGED <<handler, now, pc, body, store, timers, raceSettled, ai, rnd,
                   responses, writes, logs>>

Next4 ==
    \/ Request4
    \/ ListDocumentsResolve4
    \/ ListDocumentsReject4
    \/ GetDocumentSettle4
    \/ CurrentPathTimeout4
    \/ GenerateContentSettle4
    \/ AITimeout4
    \/ ExecutionTimeout4
    \/ UpdateDocumentSettle4
    \/ LateSettle4

Spec4 == Init4 /\ [][Next4]_vars

---------------------------------------------------------------------------
(* src/unnamed/part_004, first handler: two requests in one process.
   Each invocation of the exported function has its own locals (body,
   timers, promises, race, oracle reply, random draws, response); the
   clock, the document store and the log are shared.  The module-level
   objects of lines 5-28 are never assigned by lines 30-433 and are not
   part of the state. *)

Reqs == {1, 2}

\* a module-level surveyResponses that the first request has set
surveyShared(bodies, r) == bodies[1].surveyResponses

\* line 36: const { talentId, surveyResponses } = JSON.parse(req.body),
\* locals of the invocation
surveyOf(bodies, r) == bodies[r].surveyResponses

\* the first request names a current path and runs in production, the
\* second names none and runs in development
PairBodies ==
    <<[talentId |-> "t1", hasSurvey |-> TRUE, nodeEnv |-> "production",
       surveyResponses |-> Survey(Arr(<<python>>), Arr(<<Rust>>), Arr(<<Data>>),
                                  Arr(<<Technology>>), "p2")],
      [talentId |-> "t1", hasSurvey |-> TRUE, nodeEnv |-> "development",
       surveyResponses |-> Survey(Arr(<<Python, Excel, Java>>), Arr(<<>>),
                                  Arr(<<>>), Arr(<<>>), "")]>>

\* a collaborator of either request settles this long after the previous
\* event; timers fire at their deadlines
PairDelays == {ShortDelay}

\* the oracle's reply, when it replies: four known candidates
PairOracleTexts ==
    {Text(matchesJson(<<Fields("p1", Num(92)), Fields("p2", Num(85)),
                        Fields("p3", Num(80)), Fields("p4", Num(75))>>))}

\* the Math.random() sequence of a fallback run
PairSeeds == {1}

InitPair ==
    /\ handler = "pair"
    /\ now = 0
    /\ pc = [r \in Reqs |-> "start"]
    /\ body = PairBodies
    /\ store = [talents |-> <<TalentDoc("Pathfinder")>>, careerPaths |-> Catalog(5)]
    /\ timers = [r \in Reqs |-> NoTimers]
    /\ inflight = [r \in Reqs |-> {}]
    /\ raceSettled = [r \in Reqs |-> FALSE]
    /\ ai = [r \in Reqs |-> NoReply]
    /\ rnd = [r \in Reqs |-> NoSeed]
    /\ responses = [r \in Reqs |-> <<>>]
    /\ writes = <<>>
    /\ logs = {}

\* an event may happen at time t unless a pending timer of either request
\* is due before t
mayHappenAtPair(t) ==
    \A r \in Reqs : \A k \in DOMAIN NoTimers :
        timers[r][k] # NoTimer => t <= timers[r][k]

duePair(r, k) == timers[r][k] # NoTimer /\ mayHappenAtPair(timers[r][k])

\* lines 53-70: executeCareerMatching of request r settles
finishExecutionPair(r, result) ==
    /\ pc' = [pc EXCEPT ![r] = "done"]
    /\ IF raceDelivers(raceSettled[r])
       THEN /\ raceSettled' = [raceSettled EXCEPT ![r] = TRUE]
            /\ responses' = [responses EXCEPT
                               ![r] = Append(@, envelopeOf(body[r], result))]
       ELSE UNCHANGED <<raceSettled, responses>>

\* lines 124-182 of request r at time t
startGeneratePair(r, tm, fl, t) ==
    LET sr == surveyOf(body, r)
        pre == preFilterCareerPaths(sr, store.careerPaths)
    IN  IF pre.threw \/ buildOptimizedContextPromptThrows(sr)
        THEN \E seed \in PairSeeds :
               /\ rnd' = [rnd EXCEPT ![r] = seed]
               /\ ai' = [ai EXCEPT ![r] = [settled |-> "skipped", text |-> NoText]]
               /\ timers' = [timers EXCEPT ![r] = tm]
               /\ inflight' = [inflight EXCEPT ![r] = fl]
               /\ finishExecutionPair(r, matched(
                    catchAIFailure(sr, store.careerPaths, store.talents[1], seed)))
        ELSE /\ timers' = [timers EXCEPT ![r] = [tm EXCEPT !.ai = t + AI_TIMEOUT]]
             /\ inflight' = [inflight EXCEPT ![r] = fl \cup {"generateContent"}]
             /\ pc' = [pc EXCEPT ![r] = "ai"]
             /\ UNCHANGED <<rnd, ai, raceSettled, responses>>

\* lines 33-50
RequestPair(r) ==
    /\ handler = "pair"
    /\ pc[r] = "start"
    /\ IF body[r].talentId = "" \/ ~body[r].hasSurvey
       THEN /\ responses' = [responses EXCEPT ![r] = Append(@,
                   Response(400, FALSE, "Missing required parameters", <<>>))]
            /\ pc' = [pc EXCEPT ![r] = "done"]
            /\ UNCHANGED <<timers, inflight>>
       ELSE /\ timers' = [timers EXCEPT ![r].exec = now + EXECUTION_TIMEOUT]
            /\ inflight' = [inflight EXCEPT ![r] = {"listDocuments"}]
            /\ pc' = [pc EXCEPT ![r] = "fetch"]
            /\ UNCHANGED responses
    /\ UNCHANGED <<handler, now, body, store, raceSettled, ai, rnd, writes, logs>>

\* lines 75-114: both reads of request r have resolved
ListDocumentsResolvePair(r) ==
    \E d \in PairDelays :
    /\ handler = "pair"
    /\ pc[r] = "fetch"
    /\ "listDocuments" \in inflight[r]
    /\ mayHappenAtPair(now + d)
    /\ now' = now + d
    /\ IF Len(store.careerPaths) = 0
       THEN /\ finishExecutionPair(r, failed("No career paths available"))
            /\ inflight' = [inflight EXCEPT ![r] = @ \ {"listDocuments"}]
            /\ UNCHANGED <<timers, ai, rnd, writes>>
       ELSE IF Len(store.talents) = 0
       THEN /\ finishExecutionPair(r, failed("Talent not found"))
            /\ inflight' = [inflight EXCEPT ![r] = @ \ {"listDocuments"}]
            /\ UNCHANGED <<timers, ai, rnd, writes>>
       ELSE /\ writes' = Append(writes, [testTaken |-> TRUE])
            /\ IF surveyOf(body, r).currentPath # ""
               THEN /\ pc' = [pc EXCEPT ![r] = "currentPath"]
                    /\ timers' = [timers EXCEPT
                                    ![r].currentPath = now + d + CURRENT_PATH_TIMEOUT]
                    /\ inflight' = [inflight EXCEPT
                                      ![r] = (@ \ {"listDocuments"})
                                             \cup {"updateDocument", "getDocument"}]
                    /\ UNCHANGED <<ai, rnd, raceSettled, responses>>
               ELSE startGeneratePair(r, timers[r],
                        (inflight[r] \ {"listDocuments"}) \cup {"updateDocument"},
                        now + d)
    /\ UNCHANGED <<handler, body, store, logs>>

\* line 75: one of the reads of request r has rejected
ListDocumentsRejectPair(r) ==
    /\ handler = "pair"
    /\ pc[r] = "fetch"
    /\ "listDocuments" \in inflight[r]
    /\ inflight' = [inflight EXCEPT ![r] = @ \ {"listDocuments"}]
    /\ finishExecutionPair(r, failed("store error"))
    /\ UNCHANGED <<handler, now, body, store, timers, ai, rnd, writes, logs>>

\* lines 100-114: getDocument of request r settles before its 2 s timer
GetDocumentSettlePair(r) ==
    \E d \in PairDelays, ok \in BOOLEAN :
    /\ handler = "pair"
    /\ pc[r] = "currentPath"
    /\ "getDocument" \in inflight[r]
    /\ mayHappenAtPair(now + d)
    /\ now' = now + d
    /\ logs' = IF ok THEN logs ELSE logs \cup {"Could not fetch current career path"}
    /\ startGeneratePair(r, timers[r], inflight[r] \ {"getDocument"}, now + d)
    /\ UNCHANGED <<handler, body, store, writes>>

\* line 104: the 2 s timer of request r fires
CurrentPathTimeoutPair(r) ==
    /\ handler = "pair"
    /\ duePair(r, "currentPath")
    /\ now' = timers[r].currentPath
    /\ IF pc[r] = "currentPath"
       THEN /\ logs' = logs \cup {"Could not fetch current career path"}
            /\ startGeneratePair(r, [timers[r] EXCEPT !.currentPath = NoTimer],
                                 inflight[r], timers[r].currentPath)
       ELSE /\ timers' = [timers EXCEPT ![r].currentPath = NoTimer]
            /\ UNCHANGED <<pc, inflight, raceSettled, ai, rnd, responses, logs>>
    /\ UNCHANGED <<handler, body, store, writes>>

\* lines 168-236: the oracle answers request r before its 12 s timer
GenerateContentSettlePair(r) ==
    /\ handler = "pair"
    /\ pc[r] = "ai"
    /\ "generateContent" \in inflight[r]
    /\ \E settled \in {"reply", "reject"} :
       \E text \in IF settled = "reply" THEN PairOracleTexts ELSE {NoText} :
       \E seed \in IF usesFallback(settled, text, store.careerPaths)
                   THEN PairSeeds ELSE {NoSeed} :
       \E res \in afterAIRace(settled, text, store.talents[1],
                              surveyOf(body, r), store.careerPaths, seed) :
         /\ inflight' = [inflight EXCEPT ![r] = @ \ {"generateContent"}]
         /\ ai' = [ai EXCEPT ![r] = [settled |-> settled, text |-> text]]
         /\ rnd' = [rnd EXCEPT ![r] = seed]
         /\ finishExecutionPair(r, matched(res))
    /\ UNCHANGED <<handler, now, body, store, timers, writes, logs>>

\* lines 178-182, 232-235: the 12 s timer of request r fires
AITimeoutPair(r) ==
    /\ handler = "pair"
    /\ duePair(r, "ai")
    /\ now' = timers[r].ai
    /\ timers' = [timers EXCEPT ![r].ai = NoTimer]
    /\ IF pc[r] = "ai"
       THEN \E seed \in PairSeeds :
            \E res \in afterAIRace("timeout", NoText, store.talents[1],
                                   surveyOf(body, r), store.careerPaths, seed) :
              /\ ai' = [ai EXCEPT ![r] = [settled |-> "timeout", text |-> NoText]]
              /\ rnd' = [rnd EXCEPT ![r] = seed]
              /\ finishExecutionPair(r, matched(res))
       ELSE UNCHANGED <<pc, ai, rnd, raceSettled, responses>>
    /\ UNCHANGED <<handler, body, store, inflight, writes, logs>>

\* lines 46-48, 53, 60-70: the 25 s timer of request r fires
ExecutionTimeoutPair(r) ==
    /\ handler = "pair"
    /\ duePair(r, "exec")
    /\ now' = timers[r].exec
    /\ timers' = [timers EXCEPT ![r].exec = NoTimer]
    /\ IF raceDelivers(raceSettled[r])
       THEN /\ raceSettled' = [raceSettled EXCEPT ![r] = TRUE]
            /\ responses' = [responses EXCEPT ![r] = Append(@,
                   CatchResponseOf(body[r], "Function execution timeout"))]
       ELSE UNCHANGED <<raceSettled, responses>>
    /\ UNCHANGED <<handler, pc, body, store, inflight, ai, rnd, writes, logs>>

\* lines 95-96: the background write of request r settles
UpdateDocumentSettlePair(r) ==
    \E ok \in BOOLEAN :
    /\ handler = "pair"
    /\ "updateDocument" \in inflight[r]
    /\ inflight' = [inflight EXCEPT ![r] = @ \ {"updateDocument"}]
    /\ store' = IF ok THEN [store EXCEPT !.talents[1].testTaken = TRUE] ELSE store
    /\ logs' = IF ok THEN logs ELSE logs \cup {"Failed to update talent"}
    /\ UNCHANGED <<handler, now, pc, body, timers, raceSettled, ai, rnd, responses, writes>>

\* lines 102-105, 182: a call of request r settles after its race was
\* decided by the timer
LateSettlePair(r) ==
    \E c \in inflight[r] :
    /\ handler = "pair"
    /\ \/ c = "getDocument" /\ pc[r] # "currentPath"
       \/ c = "generateContent" /\ pc[r] # "ai"
    /\ inflight' = [inflight EXCEPT ![r] = @ \ {c}]
    /\ UNCHANGED <<handler, now, pc, body, store, timers, raceSettled, ai, rnd,
                   responses, writes, logs>>

\* the event loop runs one continuation of one request at a time
NextPair ==
    \E r \in Reqs :
        \/ RequestPair(r)
        \/ ListDocumentsResolvePair(r)
        \/ ListDocumentsRejectPair(r)
        \/ GetDocumentSettlePair(r)
        \/ CurrentPathTimeoutPair(r)
        \/ GenerateContentSettlePair(r)
        \/ AITimeoutPair(r)
        \/ ExecutionTimeoutPair(r)
        \/ UpdateDocumentSettlePair(r)
        \/ LateSettlePair(r)

SpecPair == InitPair /\ [][NextPair]_vars


---------------------------------------------------------------------------
(* src/src/main.js, first handler (lines 4-209) *)

AI_REQUEST_TIMEOUT1 == 25000

\* JSON.parse(context.req.body) and the environment of the first handler
Bodies1 == {[userId |-> u, env |-> e] : u \in {"t1", ""}, e \in BOOLEAN}

\* line 69: Query.limit(10)
documents1 == slice0(store.careerPaths, 10)

\* {"recommendations": [ ... ], "generalAdvice": "..."}
recommendationsJson(ms) ==
    <<LBrace, Key("recommendations"), LBracket>> \o elements(ms)
    \o <<RBracket, Comma, Key("generalAdvice"), StringLit, RBrace>>

\* replies of the oracle to the first handler of main.js
OracleTexts1 ==
    { Text(<<Prose>>),
      Text(<<LBrace, Key("generalAdvice"), StringLit, RBrace>>),
      Text(recommendationsJson(<<Fields("p1", Num(90)), Fields("p2", Num(80))>>)),
      Text(<<FenceOpen>>
           \o recommendationsJson(<<Fields("p1", Num(90)), Fields("ghost", Num(88)),
                                    Fields("p3", Num(70)), Fields("p2", Num(60))>>)
           \o <<FenceClose>>),
      Text(<<Prose, FenceOpen>>
           \o recommendationsJson(<<Fields("p1", Num(90))>>)
           \o <<FenceClose>>) }

\* line 158: .replace(/```json\n?/g, '').replace(/```\n?/g, '').trim()
cleanedText1(toks) ==
    SelectSeq(toks, LAMBDA tk : tk.k \notin {"fenceOpen", "fenceClose"})

\* one entry of the recommendations array as the response carries it
recommendation1(v) ==
    IF v.t = "object"
    THEN [pathId |-> v.m.careerPathId, matchScore |-> v.m.matchScore]
    ELSE [pathId |-> "", matchScore |-> Undefined]

\* lines 162-172: the recommendations made when the text does not parse
fallbackRecommendations1(docs) ==
    LET topPaths == slice0(docs, 3)
    IN  [i \in DOMAIN topPaths |->
           [pathId |-> topPaths[i].id, matchScore |-> Num(85 - (i - 1) * 5)]]

\* lines 156-178: the recommendations of a reply, or a throw
parseRecommendations1(text, docs) ==
    LET parsed == JSONparse(cleanedText1(text.toks))
        recs == getKey(parsed.val, "recommendations")
    IN  IF ~parsed.ok
        THEN [threw |-> FALSE, val |-> fallbackRecommendations1(docs)]
        ELSE IF recs.t # "array"
        THEN [threw |-> TRUE, val |-> <<>>]
        ELSE [threw |-> FALSE,
              val |-> [i \in DOMAIN recs.items |-> recommendation1(recs.items[i])]]

\* lines 192-199 and 204-207: the two envelopes
Success1(recs) == [success |-> TRUE, error |-> "", recommendations |-> slice0(recs, 3)]
Failure1(err)  == [success |-> FALSE, error |-> err, recommendations |-> <<>>]

Init1 ==
    /\ handler = "main#1"
    /\ now = 0
    /\ pc = "start"
    /\ body \in Bodies1
    /\ store \in Stores
    /\ timers = NoTimers
    /\ inflight = {}
    /\ raceSettled = FALSE
    /\ ai = NoReply
    /\ rnd = NoSeed
    /\ responses = <<>>
    /\ writes = <<>>
    /\ logs = {}

\* lines 5-71
Request1 ==
    /\ handler = "main#1"
    /\ pc = "start"
    /\ IF ~body.env
       THEN /\ responses' = Append(responses,
                   Failure1("Missing required environment variables"))
            /\ pc' = "done"
            /\ UNCHANGED inflight
       ELSE IF body.userId = ""
       THEN /\ responses' = Append(responses, Failure1("User authentication required"))
            /\ pc' = "done"
            /\ UNCHANGED inflight
       ELSE /\ inflight' = {"listDocuments"}
            /\ pc' = "fetch"
            /\ UNCHANGED responses
    /\ UNCHANGED <<handler, now, body, store, timers, raceSettled, ai, rnd,
                   writes, logs>>

\* lines 60-151: both reads have resolved
ListDocumentsResolve1 ==
    \E d \in Delays :
    /\ handler = "main#1"
    /\ pc = "fetch"
    /\ now' = now + d
    /\ IF Len(store.talents) = 0
       THEN /\ responses' = Append(responses, Failure1("User not found"))
            /\ pc' = "done"
            /\ inflight' = {}
            /\ UNCHANGED timers
       ELSE IF Len(documents1) = 0
       THEN /\ responses' = Append(responses, Failure1("No career paths found"))
            /\ pc' = "done"
            /\ inflight' = {}
            /\ UNCHANGED timers
       ELSE /\ timers' = [timers EXCEPT !.ai = now + d + AI_REQUEST_TIMEOUT1]
            /\ inflight' = {"generateContent"}
            /\ pc' = "ai"
            /\ UNCHANGED responses
    /\ UNCHANGED <<handler, body, store, raceSettled, ai, rnd, writes, logs>>

\* lines 60, 201-208: one of the reads has rejected
ListDocumentsReject1 ==
    /\ handler = "main#1"
    /\ pc = "fetch"
    /\ inflight' = {}
    /\ pc' = "done"
    /\ responses' = Append(responses, Failure1("store error"))
    /\ UNCHANGED <<handler, now, body, store, timers, raceSettled, ai, rnd,
                   writes, logs>>

\* lines 151-199: the oracle replies before the 25 s timer
GenerateContentResolve1 ==
    /\ handler = "main#1"
    /\ pc = "ai"
    /\ \E text \in OracleTexts1 :
         LET r == parseRecommendations1(text, documents1)
         IN  /\ ai' = [settled |-> "reply", text |-> text]
             /\ IF r.threw
                THEN /\ responses' = Append(responses,
                            Failure1("Invalid AI response structure"))
                     /\ inflight' = {}
                     /\ UNCHANGED writes
                ELSE /\ responses' = Append(responses, Success1(r.val))
                     /\ inflight' = {"updateDocument"}
                     /\ writes' = Append(writes, [testTaken |-> TRUE])
    /\ pc' = "done"
    /\ raceSettled' = TRUE
    /\ UNCHANGED <<handler, now, body, store, timers, rnd, logs>>

\* lines 151, 201-208: the oracle call rejects before the 25 s timer
GenerateContentReject1 ==
    /\ handler = "main#1"
    /\ pc = "ai"
    /\ ai' = [settled |-> "reject", text |-> NoText]
    /\ inflight' = {}
    /\ pc' = "done"
    /\ raceSettled' = TRUE
    /\ responses' = Append(responses, Failure1("fetch failed"))
    /\ UNCHANGED <<handler, now, body, store, timers, rnd, writes, logs>>

\* lines 144-151, 201-208: the 25 s timer fires
AITimeout1 ==
    /\ handler = "main#1"
    /\ due("ai")
    /\ now' = timers.ai
    /\ timers' = [timers EXCEPT !.ai = NoTimer]
    /\ IF pc = "ai"
       THEN /\ ai' = [settled |-> "timeout", text |-> NoText]
            /\ pc' = "done"
            /\ raceSettled' = TRUE
            /\ responses' = Append(responses, Failure1("AI request timeout"))
       ELSE UNCHANGED <<ai, pc, raceSettled, responses>>
    /\ UNCHANGED <<handler, body, store, inflight, rnd, writes, logs>>

\* lines 181-189: the background write settles
UpdateDocumentSettle1 ==
    \E ok \in BOOLEAN :
    /\ handler = "main#1"
    /\ "updateDocument" \in inflight
    /\ inflight' = inflight \ {"updateDocument"}
    /\ store' = IF ok THEN [store EXCEPT !.talents[1].testTaken = TRUE] ELSE store
    /\ logs' = IF ok THEN logs ELSE logs \cup {"Update error"}
    /\ UNCHANGED <<handler, now, pc, body, timers, raceSettled, ai, rnd,
                   responses, writes>>

\* line 151: the oracle settles after the timer has decided the race
LateSettle1 ==
    /\ handler = "main#1"
    /\ "generateContent" \in inflight
    /\ pc # "ai"
    /\ inflight' = inflight \ {"generateContent"}
    /\ UNCHANGED <<handler, now, pc, body, store, timers, raceSettled, ai, rnd,
                   responses, writes, logs>>

Next1 ==
    \/ Request1
    \/ ListDocumentsResolve1
    \/ ListDocumentsReject1
    \/ GenerateContentResolve1
    \/ GenerateContentReject1
    \/ AITimeout1
    \/ UpdateDocumentSettle1
    \/ LateSettle1

Spec1 == Init1 /\ [][Next1]_vars

---------------------------------------------------------------------------
(* src/src/main.js, second handler (lines 222-605) *)

\* a || b || []  on fields (an empty array is truthy, an empty string is not)
truthyField(f) == f.t = "arr" \/ (f.t = "str" /\ f.s # <<>>)
firstTruthy(f, g) ==
    IF truthyField(f) THEN f ELSE IF truthyField(g) THEN g ELSE Arr(<<>>)

Answers(degrees, skills, interests) ==
    [degrees |-> degrees, skills |-> skills, interests |-> interests]
NoAnswers == Answers(Absent, Absent, Absent)

\* JSON.parse(req.body) of the second handler; its list fields are arrays
\* or absent
Bodies2 ==
    {[talentId |-> "t1", careerStage |-> "Pathfinder", hasResponses |-> TRUE,
      responses |-> r, nodeEnv |-> e] :
        e \in NodeEnvs,
        r \in {Answers(Absent, Arr(<<python>>), Arr(<<>>)),
               Answers(Arr(<<>>), Absent, Arr(<<>>)),
               Answers(Arr(<<BSc>>), Arr(<<>>), Absent)}}
    \cup {[talentId |-> "t1", careerStage |-> "", hasResponses |-> TRUE,
           responses |-> NoAnswers, nodeEnv |-> "development"],
          [talentId |-> "", careerStage |-> "Pathfinder", hasResponses |-> TRUE,
           responses |-> NoAnswers, nodeEnv |-> "production"],
          [talentId |-> "t1", careerStage |-> "Pathfinder", hasResponses |-> FALSE,
           responses |-> NoAnswers, nodeEnv |-> ""]}

\* line 254: Query.limit(100)
documents2 == slice0(store.careerPaths, 100)

\* how many of the user's entries match some entry of the path (315-320)
userMatches(userEntries, pathEntries) ==
    Len(SelectSeq(userEntries,
          LAMBDA u : \E j \in DOMAIN pathEntries : looseMatch(pathEntries[j], u)))

\* lines 296-339: the filter callback's score
preFilterScore(path, answers, talent) ==
    LET userDegrees == firstTruthy(answers.degrees, talent.degrees).a
        userSkills == orEmptyArray(answers.skills).a \o orEmptyArray(talent.skills).a
        userInterests == firstTruthy(answers.interests, talent.interests).a
    IN  (IF Len(path.suggestedDegrees) = 0
            \/ userMatches(userDegrees, path.suggestedDegrees) > 0
         THEN 1 ELSE 0)
        + userMatches(userSkills, path.requiredSkills)
        + userMatches(userInterests, path.requiredInterests)

\* lines 295-341
preFilterCareers(careerPaths, answers, talent) ==
    slice0(SelectSeq(careerPaths,
                     LAMBDA path : preFilterScore(path, answers, talent) > 0),
           50)

\* lines 430-435: fences and commas before a closing brace or bracket go
cleanedJson(toks) ==
    LET kept == {i \in DOMAIN toks :
                   /\ toks[i].k \notin {"fenceOpen", "fenceClose"}
                   /\ ~(toks[i].k = "," /\ i < Len(toks)
                        /\ toks[i + 1].k \in {"}", "]"})}
        pick(n) == CHOOSE i \in kept : Cardinality({j \in kept : j <= i}) = n
    IN  [n \in 1..Cardinality(kept) |-> toks[pick(n)]]

\* lines 413-448: direct parse, then the braced substring, then its cleanup
parseAnalysis(text) ==
    LET direct == JSONparse(text.toks)
        jsonMatch == matchBraces(text.toks)
        extracted == JSONparse(jsonMatch.val)
        cleaned == JSONparse(cleanedJson(jsonMatch.val))
    IN  IF ~text.defined THEN ParseFail
        ELSE IF direct.ok THEN direct
        ELSE IF ~jsonMatch.found THEN ParseFail
        ELSE IF extracted.ok THEN extracted
        ELSE cleaned

\* lines 464-468: a match is complete
completeMatch(match) ==
    /\ match.t = "object"
    /\ match.m.careerPathId # ""
    /\ truthy(match.m.matchScore)
    /\ match.m.reasoning

\* lines 450-468: the parsed reply passes validation
validAnalysis(parsed) ==
    /\ parsed.ok
    /\ parsed.val.t \in {"object", "array"}
    /\ getKey(parsed.val, "matches").t = "array"
    /\ Len(getKey(parsed.val, "matches").items) > 0
    /\ \A i \in DOMAIN getKey(parsed.val, "matches").items :
         completeMatch(getKey(parsed.val, "matches").items[i])

\* lines 474-502: one enriched match (the score is passed on as it came)
enrichMatch2(match) ==
    [careerPath |-> match.m.careerPathId,
     matchScore |-> match.m.matchScore,
     strengths |-> Max(match.m.strengths, 0),
     developmentAreas |-> Max(match.m.developmentAreas, 0),
     recommendations |-> Max(match.m.recommendations, 0)]

\* lines 473-504
enrichAll2(careerPaths, matches) ==
    LET known == SelectSeq(matches, LAMBDA mt : findPath(careerPaths, mt) # {})
    IN  [i \in DOMAIN known |-> enrichMatch2(known[i])]

\* lines 528-573
createFallbackMatches(careerPaths) ==
    LET first == slice0(careerPaths, 5)
    IN  [i \in DOMAIN first |->
           [careerPath |-> first[i].id,
            matchScore |-> Num(Max(60, 90 - (i - 1) * 5)),
            strengths |-> 2, developmentAreas |-> 2, recommendations |-> 2]]

\* lines 513-524: the catch block
catchAIFailure2(careerPaths) ==
    IF Len(createFallbackMatches(careerPaths)) > 0
    THEN [threw |-> FALSE, val |-> createFallbackMatches(careerPaths)]
    ELSE [threw |-> TRUE, val |-> <<>>]

\* lines 401-525, once generateContent has settled
afterGenerateContent2(settled, text, careerPaths) ==
    LET parsed == parseAnalysis(text)
        enrichedMatches == enrichAll2(careerPaths, getKey(parsed.val, "matches").items)
    IN  IF settled # "reply" \/ ~validAnalysis(parsed)
        THEN catchAIFailure2(careerPaths)
        ELSE IF Len(enrichedMatches) = 0 THEN catchAIFailure2(careerPaths)
        ELSE [threw |-> FALSE, val |-> enrichedMatches]

\* replies of the oracle to the second handler of main.js
OracleTexts2 ==
    { NoText,
      Text(<<Prose>>),
      Text(matchesJson(<<Fields("p1", Num(95)), Fields("p2", Num(90)),
                         Fields("p1", Num(85)), Fields("p2", Num(80)),
                         Fields("p1", Num(75)), Fields("p2", Num(70))>>)),
      Text(matchesJson(<<Fields("p1", Num(95)), Fields("p2", Num(90)),
                         Fields("p3", Num(85)), Fields("p4", Num(80)),
                         Fields("p5", Num(75)), Fields("p6", Num(70)),
                         Fields("p7", Num(65))>>)),
      Text(matchesJson(<<Fields("ghost", Num(95))>>)),
      Text(matchesJson(<<Fields("p1", Num(0))>>)),
      malformedText }

\* lines 276-282 and 229-232, 245, 258, 286-290: the envelopes
Success2(matches) ==
    [status |-> 200, success |-> TRUE, error |-> "", matches |-> matches,
     details |-> "undefined"]
Failure2(status, err) ==
    [status |-> status, success |-> FALSE, error |-> err, matches |-> <<>>,
     details |-> "undefined"]
\* lines 286-290: the envelope of the handler's catch block
CatchFailure2(err) ==
    [Failure2(500, err) EXCEPT !.details = details(body.nodeEnv)]

Init2 ==
    /\ handler = "main#2"
    /\ now = 0
    /\ pc = "start"
    /\ body \in Bodies2
    /\ store \in Stores
    /\ timers = NoTimers
    /\ inflight = {}
    /\ raceSettled = FALSE
    /\ ai = NoReply
    /\ rnd = NoSeed
    /\ responses = <<>>
    /\ writes = <<>>
    /\ logs = {}

\* lines 223-242
Request2 ==
    /\ handler = "main#2"
    /\ pc = "start"
    /\ IF body.talentId = "" \/ body.careerStage = "" \/ ~body.hasResponses
       THEN /\ responses' = Append(responses,
                   Failure2(400, "Missing required parameters"))
            /\ pc' = "done"
            /\ UNCHANGED inflight
       ELSE /\ inflight' = {"listTalents"}
            /\ pc' = "talent"
            /\ UNCHANGED responses
    /\ UNCHANGED <<handler, now, body, store, timers, raceSettled, ai, rnd,
                   writes, logs>>

\* lines 238-255: the talent query resolves
ListTalentsResolve2 ==
    /\ handler = "main#2"
    /\ pc = "talent"
    /\ IF Len(store.talents) = 0
       THEN /\ responses' = Append(responses, Failure2(404, "Talent not found"))
            /\ pc' = "done"
            /\ inflight' = {}
       ELSE /\ inflight' = {"listCareerPaths"}
            /\ pc' = "catalog"
            /\ UNCHANGED responses
    /\ UNCHANGED <<handler, now, body, store, timers, raceSettled, ai, rnd,
                   writes, logs>>

\* lines 251-273, 405: the catalog query resolves
ListCareerPathsResolve2 ==
    /\ handler = "main#2"
    /\ pc = "catalog"
    /\ IF Len(documents2) = 0
       THEN /\ responses' = Append(responses,
                   Failure2(404, "No career paths available"))
            /\ pc' = "done"
            /\ inflight' = {}
       ELSE /\ inflight' = {"generateContent"}
            /\ pc' = "ai"
            /\ UNCHANGED responses
    /\ UNCHANGED <<handler, now, body, store, timers, raceSettled, ai, rnd,
                   writes, logs>>

\* lines 238, 251, 284-291: a query rejects
ListDocumentsReject2 ==
    /\ handler = "main#2"
    /\ pc \in {"talent", "catalog"}
    /\ responses' = Append(responses, CatchFailure2("store error"))
    /\ pc' = "done"
    /\ inflight' = {}
    /\ UNCHANGED <<handler, now, body, store, timers, raceSettled, ai, rnd,
                   writes, logs>>

\* lines 405-525, 275-291: generateContent settles
GenerateContentSettle2 ==
    /\ handler = "main#2"
    /\ pc = "ai"
    /\ \E settled \in {"reply", "reject"} :
       \E text \in IF settled = "reply" THEN OracleTexts2 ELSE {NoText} :
         LET r == afterGenerateContent2(settled, text,
                      preFilterCareers(documents2, body.responses, store.talents[1]))
         IN  /\ ai' = [settled |-> settled, text |-> text]
             /\ responses' = Append(responses,
                   IF r.threw
                   THEN CatchFailure2("Failed to generate AI career matches")
                   ELSE Success2(r.val))
    /\ pc' = "done"
    /\ inflight' = {}
    /\ UNCHANGED <<handler, now, body, store, timers, raceSettled, rnd, writes, logs>>

Next2 ==
    \/ Request2
    \/ ListTalentsResolve2
    \/ ListCareerPathsResolve2
    \/ ListDocumentsReject2
    \/ GenerateContentSettle2

Spec2 == Init2 /\ [][Next2]_vars

\* the handler runs its own steps and the store answers; nothing obliges
\* the oracle to settle
FairSpec2 ==
    /\ Spec2
    /\ WF_vars(Request2)
    /\ WF_vars(ListTalentsResolve2)
    /\ WF_vars(ListCareerPathsResolve2)

---------------------------------------------------------------------------
(* Properties of the first handler of src/unnamed/part_004 *)

\* lines 126-129: every list field of the survey is an array or absent
arrayTyped(surveyResponses) ==
    ~buildOptimizedContextPromptThrows(surveyResponses)

\* lines 182-197: the oracle call failed: it rejected, lost the race to the
\* 12 s timer, or replied with text that has no object with a matches array
oracleFailed ==
    \/ ai.settled \in {"reject", "timeout"}
    \/ ai.settled = "reply" /\ parseAIResponse(ai.text).threw

\* lines 232-235 for the request at hand
fallbackOfRequest ==
    generateEnhancedFallbackMatches(body.surveyResponses, store.careerPaths,
                                    store.talents[1], rnd)

\* line 127 for the request at hand
filteredOfRequest == preFilterCareerPaths(body.surveyResponses, store.careerPaths)

\* C1: whenever the oracle call of the first handler of part_004 rejects,
\* loses the race to the 12 s timer or replies without a parseable object
\* holding a matches array, on a non-empty catalog and array-typed survey
\* fields, the response of the request is success:true and carries the
\* output of generateEnhancedFallbackMatches.
C1_OracleFailureRecovered ==
    (/\ handler = "part_004#1"
     /\ oracleFailed
     /\ arrayTyped(body.surveyResponses)
     /\ Len(store.careerPaths) > 0
     /\ Len(responses) = 1)
    => /\ responses[1].success
       /\ responses[1].matches = fallbackOfRequest.val

\* C3: when the 25 s execution timer of the first handler of part_004 fires
\* after both fetches have completed and decides the race, the response is
\* a success:true result; the timeout error is sent only when it fires
\* while the fetches are pending.
C3_TimeoutAfterFetchesUsable ==
    [][(ExecutionTimeout4 /\ ~raceSettled /\ pc # "fetch")
       => (Len(responses') = 1 /\ responses'[1].success)]_vars

\* C4: in the first handler of part_004 at most one response is ever
\* emitted and one has been emitted once executeCareerMatching has settled
\* or the execution timer has fired; a result of executeCareerMatching that
\* comes after the execution timer leaves the timeout response alone, and
\* once the 12 s timer has decided the oracle race the matches are the
\* fallback scorer's, whatever the oracle sends afterwards.
C4_ExactlyOneResponse ==
    handler = "part_004#1" =>
      /\ Len(responses) <= 1
      /\ (pc = "done" => Len(responses) = 1)
      /\ (pc # "start" /\ timers.exec = NoTimer => Len(responses) = 1)
      /\ (raceSettled <=> Len(responses) = 1 /\ responses[1].status # 400)
      /\ (ai.settled = "timeout" /\ Len(responses) = 1 /\ responses[1].success
            => responses[1].matches = fallbackOfRequest.val)

\* the execution timer answered, executeCareerMatching settled afterwards on
\* the 12 s timer, and the oracle's late reply has arrived
C4_Witness ==
    /\ handler = "part_004#1"
    /\ pc = "done"
    /\ Len(responses) = 1
    /\ responses[1].error = "Function execution timeout"
    /\ ai.settled = "timeout"
    /\ timers = NoTimers
    /\ inflight = {}

\* C6: every match of a success:true response of the first handler of
\* part_004 references a career path of the set preFilterCareerPaths
\* computed for the request.
C6_MatchesWithinFiltered ==
    (handler = "part_004#1" /\ Len(responses) = 1 /\ responses[1].success)
    => \A i \in DOMAIN responses[1].matches :
         responses[1].matches[i].careerPath \in idsOf(filteredOfRequest.val)

\* C8: every match of a success:true response of the first handler of
\* part_004 has a numeric matchScore within 0..100, and the score taken
\* from the oracle is kept when it is a number in range, clamped to the
\* nearest bound when out of range, and 50 when absent or not a number.
C8_ScoresWithinRange ==
    LET claimed(sc) ==
            IF sc.t = "num" THEN Num(Min(Max(sc.n, 0), 100))
            ELSE IF sc.t = "numstr" THEN Num(Min(Max(sc.n, 0), 100))
            ELSE Num(50)
        supplied(text) ==
            {parseAIResponse(text).val[i].m.matchScore :
               i \in {j \in DOMAIN parseAIResponse(text).val :
                        parseAIResponse(text).val[j].t = "object"}}
    IN  (handler = "part_004#1" /\ Len(responses) = 1 /\ responses[1].success)
        => /\ \A i \in DOMAIN responses[1].matches :
                /\ responses[1].matches[i].matchScore.t = "num"
                /\ responses[1].matches[i].matchScore.n \in 0..100
           /\ ai.settled = "reply" =>
                \A sc \in supplied(ai.text) : clampScore(sc) = claimed(sc)

\* C10: whenever the filtered catalog is non-empty, a success:true response
\* of the first handler of part_004 carries at least min(6, size of the
\* filtered catalog) matches.
C10_AtLeastSix ==
    (/\ handler = "part_004#1"
     /\ Len(responses) = 1
     /\ responses[1].success
     /\ Len(filteredOfRequest.val) > 0)
    => Len(responses[1].matches) >= Min(6, Len(filteredOfRequest.val))

\* C10, as the code has it: whenever the filtered catalog is non-empty, a
\* success:true response of the first handler of part_004 carries at least
\* min(4, size of the filtered catalog) matches; fewer than 4 valid oracle
\* candidates are topped up from the fallback scorer until there are 4 or
\* the catalog is exhausted.
C10_AtLeastFour ==
    (/\ handler = "part_004#1"
     /\ Len(responses) = 1
     /\ responses[1].success
     /\ Len(filteredOfRequest.val) > 0)
    => Len(responses[1].matches) >= Min(4, Len(filteredOfRequest.val))

\* the oracle gave no valid candidate on a filtered catalog of six or more
\* and the response carries the four the fallback scorer added
C10_Witness ==
    /\ handler = "part_004#1"
    /\ Len(responses) = 1
    /\ responses[1].success
    /\ ai.settled = "reply"
    /\ ~parseAIResponse(ai.text).threw
    /\ Len(enrichAll(store.careerPaths, parseAIResponse(ai.text).val)) = 0
    /\ Len(filteredOfRequest.val) >= 6
    /\ Len(responses[1].matches) = 4

---------------------------------------------------------------------------
(* Properties of the two handlers of src/src/main.js *)

\* C2: when the oracle call of the first handler of main.js loses the race
\* to the 25 s timer or rejects, the caller receives success:true with the
\* fallback recommendations made from the first three catalog documents,
\* as it does when the oracle's text does not parse.
C2_OracleFailureFallsBack ==
    (handler = "main#1" /\ ai.settled \in {"timeout", "reject"}
       /\ Len(responses) = 1)
    => /\ responses[1].success
       /\ responses[1].recommendations = fallbackRecommendations1(documents1)

\* C7: no recommendation of a success:true response of the first handler
\* of main.js has a pathId that is absent from the catalog documents
\* fetched for the request.
C7_RecommendationsWithinCatalog ==
    (handler = "main#1" /\ Len(responses) = 1 /\ responses[1].success)
    => \A i \in DOMAIN responses[1].recommendations :
         responses[1].recommendations[i].pathId \in idsOf(documents1)

\* C5: in the second handler of main.js every request eventually gets a
\* response when the handler takes its steps and the store replies, whether
\* or not generateContent ever settles.
C5_EventuallyResponds == <>(handler = "main#2" /\ Len(responses) = 1)

\* C9: the matches array of a success:true response of the second handler
\* of main.js never has more than 5 entries.
C9_AtMostFive ==
    (handler = "main#2" /\ Len(responses) = 1 /\ responses[1].success)
    => Len(responses[1].matches) <= 5

---------------------------------------------------------------------------
(* Properties of the ordering, the pre-filter and the fallback scorer *)

\* C11: the matches of a success:true response of the first handler of
\* part_004 are in non-increasing matchScore order, also when fallback
\* candidates were appended to fewer than 4 oracle candidates, and oracle
\* candidates of equal score keep the order the oracle gave them.
C11_NonIncreasingScores ==
    (handler = "part_004#1" /\ Len(responses) = 1 /\ responses[1].success)
    => /\ \A i, j \in DOMAIN responses[1].matches :
            i < j => /\ responses[1].matches[i].matchScore.t = "num"
                     /\ responses[1].matches[j].matchScore.t = "num"
                     /\ responses[1].matches[i].matchScore.n
                          >= responses[1].matches[j].matchScore.n
       /\ (/\ ai.settled = "reply"
           /\ ~parseAIResponse(ai.text).threw
           /\ Len(enrichAll(store.careerPaths, parseAIResponse(ai.text).val)) >= 4
           /\ consistentComparator(
                  enrichAll(store.careerPaths, parseAIResponse(ai.text).val)))
          => responses[1].matches
               = topMatches(stableSortDesc(
                     enrichAll(store.careerPaths, parseAIResponse(ai.text).val)))

---------------------------------------------------------------------------
(* The pure functions called on their own: pre-filters and fallback scorer *)

\* src/unnamed/part_000 lines 370-417: preFilterCareerPaths of the second
\* handler of part_000; its filter callback (lines 380-408) is that of
\* part_004 lines 248-275 word for word
preFilterCareerPaths0(surveyResponses, careerPaths) ==
    LET interestedFields == orEmptyArray(surveyResponses.interestedFields)
        currentSkills    == orEmptyArray(surveyResponses.currentSkills)
        interests        == orEmptyArray(surveyResponses.interests)
        filtered == SelectSeq(careerPaths,
                      LAMBDA path : preFilterScore2(interestedFields,
                                       currentSkills, interests, path) > 0)
        remaining == SelectSeq(careerPaths,
                      LAMBDA path : ~arrIncludes(filtered, path))
        padded == IF Len(filtered) < 15
                  THEN filtered \o slice0(remaining, 15 - Len(filtered))
                  ELSE filtered
    IN  IF /\ lengthOf(interestedFields) = 0
           /\ lengthOf(currentSkills) = 0
           /\ lengthOf(interests) = 0
        THEN [threw |-> FALSE, val |-> slice0(careerPaths, 30)]
        ELSE IF Len(careerPaths) > 0
                /\ (~isArray(currentSkills) \/ ~isArray(interests))
        THEN [threw |-> TRUE, val |-> <<>>]
        ELSE [threw |-> FALSE, val |-> slice0(padded, 35)]

\* part_000 line 528: Math.round(score + Math.random() * 8) - score for an
\* integer score: 0..8; draw k of the sequence with the given seed
roundedJitter0(seed, k) == (seed * k) % 9

\* part_000 lines 483-543: the map callback
scorePath0(surveyResponses, talent, path, jitter) ==
    LET currentSkills == orEmptyArray(surveyResponses.currentSkills)
        interests     == orEmptyArray(surveyResponses.interests)
        fields        == orEmptyArray(surveyResponses.interestedFields)
        skillsToLearn == orEmptyArray(surveyResponses.skillsToLearn)
        score == 25 * overlapCount(path.requiredSkills, currentSkills)
               + 15 * overlapCount(path.requiredSkills, skillsToLearn)
               + 20 * overlapCount(path.requiredInterests, interests)
               + (IF includesOf(fields, path.industry) THEN 30 ELSE 0)
               + stageLevelBonus(talent.careerStage, path.level)
               + jitter
    IN  [careerPath |-> path.id,
         matchScore |-> Num(Min(score, 95)),
         strengths |-> Min(Len(currentSkills.a), 2),
         developmentAreas |-> 2,
         recommendations |-> 4]

\* part_000 lines 477-548: [threw, val]; .some on a string is a TypeError,
\* and so is .map on the string that the slice of a string is (line 534)
generateEnhancedFallbackMatches0(surveyResponses, careerPaths, talent, seed) ==
    LET currentSkills == orEmptyArray(surveyResponses.currentSkills)
        interests     == orEmptyArray(surveyResponses.interests)
        skillsToLearn == orEmptyArray(surveyResponses.skillsToLearn)
        throws == \E i \in DOMAIN careerPaths :
                    \/ ~isArray(currentSkills)
                    \/ /\ Len(careerPaths[i].requiredSkills) > 0
                       /\ ~isArray(skillsToLearn)
                    \/ /\ Len(careerPaths[i].requiredInterests) > 0
                       /\ ~isArray(interests)
        scoredPaths == [i \in DOMAIN careerPaths |->
                          scorePath0(surveyResponses, talent, careerPaths[i],
                                     roundedJitter0(seed, i))]
    IN  IF throws THEN [threw |-> TRUE, val |-> <<>>]
        ELSE [threw |-> FALSE, val |-> slice0(stableSortDesc(scoredPaths), 8)]

---------------------------------------------------------------------------
(* The paginated catalog reads: part_004 lines 558-577 (second handler)
   and part_003 lines 294-314 (first handler), on a catalog that does not
   change during the read *)

\* largest number of documents in the catalog collection
MaxDocs == 230

\* part_004 line 561, part_003 line 299: Query.limit(100)
limit == 100

\* databases.listDocuments with Query.limit(lim) and Query.offset(off):
\* the documents at store positions off+1 .. off+lim that exist
listPage(documents, lim, off) ==
    SubSeq(documents, off + 1, Min(Len(documents), off + lim))

\* part_004 lines 563-577: the do/while loop from the given locals on;
\* fetches counts the listDocuments calls made
RECURSIVE readLoop(_, _, _, _)
readLoop(documents, allCareerPaths, offset, fetches) ==
    LET careerPathsBatch == listPage(documents, limit, offset)
        all == allCareerPaths \o careerPathsBatch
    IN  IF Len(careerPathsBatch) < limit
        THEN [allCareerPaths |-> all, fetches |-> fetches + 1]
        ELSE readLoop(documents, all, offset + limit, fetches + 1)

\* part_004 lines 558-577
readAllCareerPaths(documents) == readLoop(documents, <<>>, 0, 0)

\* part_003 lines 296-312: one batch, and a second one at offset 100 when
\* the first came back full
readTwoBatches(documents) ==
    LET careerPathsBatch1 == listPage(documents, limit, 0)
    IN  IF Len(careerPathsBatch1) = limit
        THEN [allCareerPaths |-> careerPathsBatch1 \o listPage(documents, limit, limit),
              fetches |-> 2]
        ELSE [allCareerPaths |-> careerPathsBatch1, fetches |-> 1]

\* the collection holds documents 1..n, in store order
InitRead ==
    /\ handler = "read"
    /\ now = 0
    /\ pc = "start"
    /\ body = [talentId |-> "", hasSurvey |-> FALSE]
    /\ store \in {[talents |-> <<>>, careerPaths |-> [i \in 1..n |-> i]] :
                    n \in 0..MaxDocs}
    /\ timers = NoTimers
    /\ inflight = {}
    /\ raceSettled = FALSE
    /\ ai = NoReply
    /\ rnd = NoSeed
    /\ responses = <<>>
    /\ writes = <<>>
    /\ logs = {}

\* part_004 lines 558-577 run to the end of the loop
ReadLoop4b ==
    /\ handler = "read"
    /\ pc = "start"
    /\ pc' = "done"
    /\ responses' = <<[fn |-> "part_004.pagination",
                       read |-> readAllCareerPaths(store.careerPaths)]>>
    /\ UNCHANGED <<handler, now, body, store, timers, inflight, raceSettled,
                   ai, rnd, writes, logs>>

\* part_003 lines 294-312 run to the end
ReadBatches3 ==
    /\ handler = "read"
    /\ pc = "start"
    /\ pc' = "done"
    /\ responses' = <<[fn |-> "part_003.batches",
                       read |-> readTwoBatches(store.careerPaths)]>>
    /\ UNCHANGED <<handler, now, body, store, timers, inflight, raceSettled,
                   ai, rnd, writes, logs>>

NextRead ==
    \/ ReadLoop4b
    \/ ReadBatches3

SpecRead == InitRead /\ [][NextRead]_vars

---------------------------------------------------------------------------
(* src/unnamed/part_003, first handler (lines 4-428): the pure functions *)

\* part_004 lines 612-631 and part_003 lines 140-159:
\* Array.isArray(x) ? x : [x] for a truthy answer, else []
asArray(f) ==
    IF ~truthyField(f) THEN <<>>
    ELSE IF f.t = "arr" THEN f.a ELSE <<f.s>>

\* part_003 lines 225-267: the score of a path (the catalog's documents
\* have no title or description, the profile no education)
matchScore3(path, userProfile) ==
    3 * overlapCount(path.requiredSkills,
            Arr(userProfile.currentSkills \o userProfile.interestedSkills))
    + 2 * overlapCount(path.requiredInterests, Arr(userProfile.interests))
    + (IF \E i \in DOMAIN userProfile.interestedFields :
             looseMatch(path.industry, userProfile.interestedFields[i])
       THEN 2 ELSE 0)

\* part_003 lines 274-281: top scorers, of new industries once 10 are taken
RECURSIVE firstPass3(_, _, _)
firstPass3(topScored, i, selected) ==
    IF i > Len(topScored) \/ Len(selected) >= 20 THEN selected
    ELSE IF \/ topScored[i].industry
                \notin {selected[j].industry : j \in DOMAIN selected}
            \/ Len(selected) < 10
    THEN firstPass3(topScored, i + 1, Append(selected, topScored[i]))
    ELSE firstPass3(topScored, i + 1, selected)

\* part_003 lines 284-289: the remaining slots, in the order of the scores
RECURSIVE secondPass3(_, _, _)
secondPass3(topScored, i, selected) ==
    IF i > Len(topScored) \/ Len(selected) >= 20 THEN selected
    ELSE IF topScored[i].id \notin {selected[j].id : j \in DOMAIN selected}
    THEN secondPass3(topScored, i + 1, Append(selected, topScored[i]))
    ELSE secondPass3(topScored, i + 1, selected)

\* part_003 lines 219-292
filterRelevantCareerPaths3(allPaths, userProfile) ==
    LET scoredPaths == [i \in DOMAIN allPaths |->
                          [id |-> allPaths[i].id,
                           industry |-> allPaths[i].industry,
                           matchScore |-> Num(matchScore3(allPaths[i], userProfile))]]
        topScored == stableSortDesc(scoredPaths)
    IN  secondPass3(topScored, 1, firstPass3(topScored, 1, <<>>))

---------------------------------------------------------------------------
(* The pure functions applied to bounded inputs *)

\* the largest catalog the functions are called on
MaxWide == 40

\* document i of a catalog in which every k-th document is a Technology
\* path asking for Python and Data and the others ask for nothing
WidePath(i, k) ==
    IF k > 0 /\ i % k = 0
    THEN [id |-> "w" \o ToString(i), industry |-> Technology,
          requiredSkills |-> <<Python>>, requiredInterests |-> <<Data>>,
          level |-> "Entry", suggestedDegrees |-> <<>>]
    ELSE [id |-> "w" \o ToString(i), industry |-> Arts,
          requiredSkills |-> <<>>, requiredInterests |-> <<>>,
          level |-> "Mid", suggestedDegrees |-> <<>>]

WideCatalog(n, k) == [i \in 1..n |-> WidePath(i, k)]

\* p1 and nine paths of another industry with other skills; p1 asks for
\* an interest in Data or for no interest
ScenarioCatalog(withInterest) ==
    [i \in 1..10 |->
       IF i > 1 THEN CareerPathDoc(i + 2)
       ELSE IF withInterest THEN CareerPathDoc(1)
       ELSE [CareerPathDoc(1) EXCEPT !.requiredInterests = <<>>]]

\* sizes around the floors (12, 15), the caps (25, 30, 35) and beyond
WideSizes == {n \in 1..MaxWide : n \in {1, 11, 13, 16, 26, 31, 36} \/ n = MaxWide}

\* 26 Technology paths: the even ones ask for Python and Data, the odd
\* ones ask for nothing
MixedCatalog ==
    [i \in 1..26 |->
       [WidePath(i, 1) EXCEPT
          !.requiredSkills = IF i % 2 = 0 THEN @ ELSE <<>>,
          !.requiredInterests = IF i % 2 = 0 THEN @ ELSE <<>>]]

\* nine paths: four Technology paths asking for Python and Data, an Arts
\* path asking for nothing in place 7 and, in places 5, 6 and 8, 9, twice
\* an Arts path asking for Python before a Technology path asking for nothing
CloseCatalog ==
    [i \in 1..9 |->
       IF i \in {5, 8} THEN [WidePath(i, 0) EXCEPT !.requiredSkills = <<Python>>]
       ELSE IF i \in {6, 9} THEN [WidePath(i, 0) EXCEPT !.industry = Technology]
       ELSE IF i = 7 THEN WidePath(i, 0)
       ELSE WidePath(i, 1)]

FnCatalogs ==
    {WideCatalog(n, k) : n \in WideSizes, k \in {0, 1, 3}}
    \cup {ScenarioCatalog(w) : w \in BOOLEAN}
    \cup {MixedCatalog, CloseCatalog}

\* each list field is, independently, an array, a single string or absent
FnSurveys ==
    {Survey(cs, stl, ints, flds, "") :
        cs \in {Arr(<<Python>>), Scalar(Python), Absent},
        stl \in {Arr(<<Rust>>), Scalar(Rust), Absent},
        ints \in {Arr(<<Data>>), Scalar(Data), Absent},
        flds \in {Arr(<<Technology>>), Scalar(Technology), Absent}}

\* what a call returned
Returned(fn, r) == [fn |-> fn, threw |-> r.threw, val |-> r.val]

InitFn ==
    /\ handler = "fn"
    /\ now = 0
    /\ pc = "start"
    /\ body \in {[talentId |-> "t1", hasSurvey |-> TRUE, surveyResponses |-> sv] :
                   sv \in FnSurveys}
    /\ store \in {[talents |-> <<TalentDoc("Pathfinder")>>, careerPaths |-> c] :
                    c \in FnCatalogs}
    /\ timers = NoTimers
    /\ inflight = {}
    /\ raceSettled = FALSE
    /\ ai = NoReply
    /\ rnd = NoSeed
    /\ responses = <<>>
    /\ writes = <<>>
    /\ logs = {}

\* part_004 lines 238-284 applied
CallPreFilter4 ==
    /\ handler = "fn"
    /\ pc = "start"
    /\ pc' = "done"
    /\ responses' = <<Returned("part_004.preFilterCareerPaths",
                        preFilterCareerPaths(body.surveyResponses,
                                             store.careerPaths))>>
    /\ UNCHANGED <<handler, now, body, store, timers, inflight, raceSettled,
                   ai, rnd, writes, logs>>

\* part_000 lines 370-417 applied
CallPreFilter0 ==
    /\ handler = "fn"
    /\ pc = "start"
    /\ pc' = "done"
    /\ responses' = <<Returned("part_000.preFilterCareerPaths",
                        preFilterCareerPaths0(body.surveyResponses,
                                              store.careerPaths))>>
    /\ UNCHANGED <<handler, now, body, store, timers, inflight, raceSettled,
                   ai, rnd, writes, logs>>

\* part_004 lines 331-402 applied
CallFallback4 ==
    \E seed \in Seeds :
    /\ handler = "fn"
    /\ pc = "start"
    /\ pc' = "done"
    /\ rnd' = seed
    /\ responses' = <<Returned("part_004.generateEnhancedFallbackMatches",
                        generateEnhancedFallbackMatches(body.surveyResponses,
                            store.careerPaths, store.talents[1], seed))>>
    /\ UNCHANGED <<handler, now, body, store, timers, inflight, raceSettled,
                   ai, writes, logs>>

\* part_003 lines 219-292 applied to the profile that lines 140-159 make of
\* the survey's lists
CallFilter3 ==
    /\ handler = "fn"
    /\ pc = "start"
    /\ pc' = "done"
    /\ responses' =
         <<[fn |-> "part_003.filterRelevantCareerPaths", threw |-> FALSE,
            val |-> filterRelevantCareerPaths3(store.careerPaths,
                      [currentSkills |-> asArray(body.surveyResponses.currentSkills),
                       interestedSkills |-> asArray(body.surveyResponses.skillsToLearn),
                       interests |-> asArray(body.surveyResponses.interests),
                       interestedFields |->
                           asArray(body.surveyResponses.interestedFields)])]>>
    /\ UNCHANGED <<handler, now, body, store, timers, inflight, raceSettled,
                   ai, rnd, writes, logs>>

\* part_000 lines 477-548 applied
CallFallback0 ==
    \E seed \in Seeds :
    /\ handler = "fn"
    /\ pc = "start"
    /\ pc' = "done"
    /\ rnd' = seed
    /\ responses' = <<Returned("part_000.generateEnhancedFallbackMatches",
                        generateEnhancedFallbackMatches0(body.surveyResponses,
                            store.careerPaths, store.talents[1], seed))>>
    /\ UNCHANGED <<handler, now, body, store, timers, inflight, raceSettled,
                   ai, writes, logs>>

NextFn ==
    \/ CallFallback0
    \/ CallPreFilter4
    \/ CallPreFilter0
    \/ CallFallback4
    \/ CallFilter3

SpecFn == InitFn /\ [][NextFn]_vars

\* C12: on every non-empty catalog and every survey with array-typed
\* fields, preFilterCareerPaths returns at least min(floor, size of the
\* catalog) and at most maxSize items, with floor 12 and maxSize 25 in
\* part_004 and floor 15 and maxSize 35 in part_000.
C12_FilterBetweenFloorAndMax ==
    (/\ handler = "fn"
     /\ Len(responses) = 1
     /\ arrayTyped(body.surveyResponses)
     /\ Len(store.careerPaths) > 0)
    => /\ responses[1].fn = "part_004.preFilterCareerPaths"
            => /\ ~responses[1].threw
               /\ Len(responses[1].val) >= Min(12, Len(store.careerPaths))
               /\ Len(responses[1].val) <= 25
       /\ responses[1].fn = "part_000.preFilterCareerPaths"
            => /\ ~responses[1].threw
               /\ Len(responses[1].val) >= Min(15, Len(store.careerPaths))
               /\ Len(responses[1].val) <= 35

\* more than 35 paths matched and the part_000 filter cut them to 35
C12_Witness ==
    /\ handler = "fn"
    /\ Len(responses) = 1
    /\ responses[1].fn = "part_000.preFilterCareerPaths"
    /\ arrayTyped(body.surveyResponses)
    /\ Len(SelectSeq(store.careerPaths,
             LAMBDA path : arrIncludes(
                 orEmptyArray(body.surveyResponses.interestedFields).a,
                 path.industry))) > 35
    /\ Len(responses[1].val) = 35


\* C13: on every non-empty catalog and every survey in which each list
\* field is an array, a single string or absent, the pre-filter and
\* generateEnhancedFallbackMatches of part_004 return without throwing, and
\* return what they return when the single string is given as a
\* one-element array and the absent field as the empty array.
C13_TotalOverScalars ==
    LET asSet(f) == IF f.t = "str" /\ f.s # <<>> THEN Arr(<<f.s>>)
                    ELSE orEmptyArray(f)
        sr == body.surveyResponses
        normalized == Survey(asSet(sr.currentSkills), asSet(sr.skillsToLearn),
                             asSet(sr.interests), asSet(sr.interestedFields),
                             sr.currentPath)
    IN  (handler = "fn" /\ Len(responses) = 1 /\ Len(store.careerPaths) > 0)
        => /\ responses[1].fn = "part_004.preFilterCareerPaths"
                => /\ ~responses[1].threw
                   /\ responses[1].val
                        = preFilterCareerPaths(normalized, store.careerPaths).val
           /\ responses[1].fn = "part_004.generateEnhancedFallbackMatches"
                => /\ ~responses[1].threw
                   /\ responses[1].val
                        = generateEnhancedFallbackMatches(normalized,
                              store.careerPaths, store.talents[1], rnd).val

---------------------------------------------------------------------------
(* src/src/main.js: the profile the two handlers match with *)

\* the list fields of a request payload or of a stored talent document;
\* education stands for educationLevel / degrees, fields for interestedFields
ProfileFields(education, skills, interests, fields) ==
    [education |-> education, skills |-> skills, interests |-> interests,
     fields |-> fields]

\* line 86: answers && Object.keys(answers).length > 0
hasAnswers(answers) ==
    \E k \in DOMAIN answers : answers[k].t # "absent"

\* lines 85-110: createUserProfile of the first handler
createUserProfile(answers, userData) ==
    IF hasAnswers(answers)
    THEN ProfileFields(orEmptyArray(answers.education).a,
                       slice0(orEmptyArray(answers.skills).a, 3),
                       slice0(orEmptyArray(answers.interests).a, 3),
                       slice0(orEmptyArray(answers.fields).a, 3))
    ELSE ProfileFields(orEmptyArray(userData.education).a,
                       slice0(orEmptyArray(userData.skills).a, 3),
                       slice0(orEmptyArray(userData.interests).a, 3),
                       slice0(orEmptyArray(userData.fields).a, 3))

\* lines 575-585: buildConciseProfile of the second handler (the same
\* expressions give userDegrees, userSkills and userInterests at lines 301,
\* 313 and 326)
buildConciseProfile(talent, answers) ==
    ProfileFields(firstTruthy(answers.education, talent.education).a,
                  orEmptyArray(answers.skills).a \o orEmptyArray(talent.skills).a,
                  firstTruthy(answers.interests, talent.interests).a,
                  firstTruthy(answers.fields, talent.fields).a)

\* payloads: each field is carried or not, independently
ProfilePayloads ==
    {ProfileFields(e, s, i, f) :
        e \in {Arr(<<BSc>>), Absent}, s \in {Arr(<<Python>>), Absent},
        i \in {Arr(<<Data>>), Absent}, f \in {Arr(<<Technology>>), Absent}}

\* stored profiles: each field is stored or not, independently
StoredProfiles ==
    {ProfileFields(e, s, i, f) :
        e \in {Arr(<<MBA>>), Absent}, s \in {Arr(<<Java>>), Absent},
        i \in {Arr(<<Money>>), Absent}, f \in {Arr(<<Finance>>), Absent}}

InitProfile ==
    /\ handler = "profile"
    /\ now = 0
    /\ pc = "start"
    /\ body \in ProfilePayloads
    /\ store \in {[talents |-> <<t>>, careerPaths |-> <<>>] : t \in StoredProfiles}
    /\ timers = NoTimers
    /\ inflight = {}
    /\ raceSettled = FALSE
    /\ ai = NoReply
    /\ rnd = NoSeed
    /\ responses = <<>>
    /\ writes = <<>>
    /\ logs = {}

\* line 112
CallCreateUserProfile ==
    /\ handler = "profile"
    /\ pc = "start"
    /\ pc' = "main#1"
    /\ responses' = <<createUserProfile(body, store.talents[1])>>
    /\ UNCHANGED <<handler, now, body, store, timers, inflight, raceSettled,
                   ai, rnd, writes, logs>>

\* line 354
CallBuildConciseProfile ==
    /\ handler = "profile"
    /\ pc = "start"
    /\ pc' = "main#2"
    /\ responses' = <<buildConciseProfile(store.talents[1], body)>>
    /\ UNCHANGED <<handler, now, body, store, timers, inflight, raceSettled,
                   ai, rnd, writes, logs>>

NextProfile ==
    \/ CallCreateUserProfile
    \/ CallBuildConciseProfile

SpecProfile == InitProfile /\ [][NextProfile]_vars

\* C14: in both handlers of main.js each of education, skills, interests
\* and interested fields of the matching profile is the payload's value
\* when the payload carries the field and the stored profile's value
\* otherwise, whatever other fields the payload carries.
C14_MergedFieldByField ==
    (handler = "profile" /\ Len(responses) = 1)
    => \A k \in {"education", "skills", "interests", "fields"} :
         responses[1][k] = IF body[k].t # "absent" THEN body[k].a
                           ELSE orEmptyArray(store.talents[1][k]).a

---------------------------------------------------------------------------
(* src/unnamed/part_004, second handler (lines 438-997) *)

\* the list-valued survey answers of the second handler
SurveyAnswers(cs, isk, mi, fl) ==
    [currentSkills |-> cs, interestedSkills |-> isk, mainInterests |-> mi,
     interestedFields |-> fl]

\* JSON.parse(context.req.body), the user id the headers give, and whether
\* the four environment variables are set; the scalar answers
\* (educationLevel, program, currentPath, ...) are absent from these payloads
Bodies4b ==
    {[userId |-> u, env |-> e, surveyAnswers |-> a] :
        u \in {"t1", ""}, e \in BOOLEAN,
        a \in {SurveyAnswers(Absent, Absent, Absent, Absent),
               SurveyAnswers(Arr(<<Python>>), Absent, Arr(<<Data>>),
                             Arr(<<Technology>>)),
               SurveyAnswers(Scalar(Python), Absent, Absent, Absent),
               SurveyAnswers(Scalar(<<>>), Absent, Absent, Absent)}}

\* line 656: surveyAnswers && Object.keys(surveyAnswers).length > 0
hasSurveyAnswers(answers) ==
    \E k \in DOMAIN answers : answers[k].t # "absent"

\* lines 587-652: interestedSkills is a key of the mapped profile
mapSurveyAnswersToProfile(answers, careerStage) ==
    [careerStage |-> careerStage,
     currentSkills |-> asArray(answers.currentSkills),
     hasInterestedSkills |-> TRUE,
     interestedSkills |-> asArray(answers.interestedSkills),
     interests |-> asArray(answers.mainInterests),
     interestedFields |-> asArray(answers.interestedFields)]

\* lines 701-709: the profile made of the stored document has no
\* interestedSkills key
storedUserProfile(userData) ==
    [careerStage |-> userData.careerStage,
     currentSkills |-> orEmptyArray(userData.skills).a,
     hasInterestedSkills |-> FALSE,
     interestedSkills |-> <<>>,
     interests |-> orEmptyArray(userData.interests).a,
     interestedFields |-> <<>>]

\* lines 655-710
userProfile4b(answers, userData) ==
    IF hasSurveyAnswers(answers)
    THEN mapSurveyAnswersToProfile(answers, userData.careerStage)
    ELSE storedUserProfile(userData)

\* lines 661-683: the keys of updateData
updateData(answers) ==
    {k \in {"currentSkills", "mainInterests", "interestedFields"} :
        truthyField(answers[k])}

\* lines 732-787: relevanceScore of a path (no program, no current path)
relevanceScore(path, profile) ==
    3 * overlapCount(path.requiredInterests, Arr(profile.interests))
    + 2 * overlapCount(path.requiredSkills,
              Arr(profile.currentSkills \o profile.interestedSkills))
    + (IF \E i \in DOMAIN profile.interestedFields :
             looseMatch(profile.interestedFields[i], path.industry)
       THEN 4 ELSE 0)

\* lines 713-807: the relevant paths, topped up to 15 and cut at 25; the
\* order of the result reaches the prompt only and is left as the catalog's
filterRelevantCareerPaths(careerPaths, profile) ==
    LET relevantPaths == SelectSeq(careerPaths,
                            LAMBDA path : relevanceScore(path, profile) > 0)
        remainingPaths == SelectSeq(careerPaths,
                            LAMBDA path : relevanceScore(path, profile) = 0)
    IN  slice0(IF Len(relevantPaths) < 15
               THEN relevantPaths
                    \o slice0(remainingPaths, 15 - Len(relevantPaths))
               ELSE relevantPaths, 25)

\* lines 824-863: userProfile.interestedSkills.join throws a TypeError when
\* the profile has no such key and the stage has a details section
promptThrows(profile) ==
    /\ profile.careerStage \in {"Pathfinder", "Trailblazer", "Horizon Changer"}
    /\ ~profile.hasInterestedSkills

\* replies of the oracle to the second handler of part_004
OracleTexts4b ==
    { Text(<<Prose>>),
      Text(<<LBrace, Key("generalAdvice"), StringLit, RBrace>>),
      Text(recommendationsJson(<<Fields("p1", Num(90)), Fields("p2", Num(80))>>)),
      Text(recommendationsJson(<<Fields("p1", Num(95)), Fields("p2", Num(90)),
                                 Fields("p3", Num(85)), Fields("p4", Num(80)),
                                 Fields("p5", Num(75)), Fields("p6", Num(70))>>)),
      Text(<<Prose, FenceOpen>>
           \o recommendationsJson(<<Fields("p1", Num(95)), Fields("p2", Num(90)),
                                    Fields("p3", Num(85)), Fields("p4", Num(80)),
                                    Fields("p5", Num(75))>>)
           \o <<FenceClose>>) }

\* lines 925-956: the recommendations of a reply, or the error thrown
parseRecommendations4b(text) ==
    LET direct == JSONparse(cleanedText1(text.toks))
        jsonMatch == matchBraces(text.toks)
        extracted == JSONparse(jsonMatch.val)
        parsed == IF direct.ok THEN direct ELSE extracted
        recs == getKey(parsed.val, "recommendations")
    IN  IF ~direct.ok /\ ~jsonMatch.found
        THEN [threw |-> TRUE, err |-> "No valid JSON found in AI response",
              val |-> <<>>]
        ELSE IF ~direct.ok /\ ~extracted.ok
        THEN [threw |-> TRUE, err |-> "Failed to parse AI response as JSON",
              val |-> <<>>]
        ELSE IF recs.t # "array"
        THEN [threw |-> TRUE, err |-> "Invalid response structure from AI",
              val |-> <<>>]
        ELSE IF Len(recs.items) < 5
        THEN [threw |-> TRUE, err |-> "AI did not provide enough recommendations",
              val |-> <<>>]
        ELSE [threw |-> FALSE, err |-> "",
              val |-> [i \in DOMAIN recs.items |-> recommendation1(recs.items[i])]]

\* lines 971-979 and 989-992: the two envelopes
Success4b(recs, filtered) ==
    [success |-> TRUE, error |-> "", recommendations |-> slice0(recs, 5),
     totalPathsConsidered |-> Len(store.careerPaths),
     filteredPathsConsidered |-> Len(filtered)]
Failure4b(err) ==
    [success |-> FALSE, error |-> err, recommendations |-> <<>>,
     totalPathsConsidered |-> 0, filteredPathsConsidered |-> 0]

Init4b ==
    /\ handler = "part_004#2"
    /\ now = 0
    /\ pc = "start"
    /\ body \in Bodies4b
    /\ store \in Stores
    /\ timers = NoTimers
    /\ inflight = {}
    /\ raceSettled = FALSE
    /\ ai = NoReply
    /\ rnd = NoSeed
    /\ responses = <<>>
    /\ writes = <<>>
    /\ logs = {}

\* lines 986-996: the catch block answers
throw4b(err) ==
    /\ responses' = Append(responses, Failure4b(err))
    /\ pc' = "done"
    /\ inflight' = {}

\* lines 810-919: the filter and the prompt are built, the oracle is called
callOracle4b ==
    IF promptThrows(userProfile4b(body.surveyAnswers, store.talents[1]))
    THEN throw4b("TypeError")
    ELSE /\ inflight' = {"generateContent"}
         /\ pc' = "ai"
         /\ UNCHANGED responses

\* lines 438-542
Request4b ==
    /\ handler = "part_004#2"
    /\ pc = "start"
    /\ IF ~body.env
       THEN throw4b("Missing required environment variables")
       ELSE IF body.userId = ""
       THEN throw4b("User authentication required")
       ELSE /\ inflight' = {"listDocuments"}
            /\ pc' = "user"
            /\ UNCHANGED responses
    /\ UNCHANGED <<handler, now, body, store, timers, raceSettled, ai, rnd,
                   writes, logs>>

\* lines 538-568: the talent read resolves
ListUserResolve4b ==
    /\ handler = "part_004#2"
    /\ pc = "user"
    /\ IF Len(store.talents) = 0
       THEN throw4b("User not found")
       ELSE /\ inflight' = {"listDocuments"}
            /\ pc' = "paths"
            /\ UNCHANGED responses
    /\ UNCHANGED <<handler, now, body, store, timers, raceSettled, ai, rnd,
                   writes, logs>>

\* lines 563-699: the catalog read resolves (one batch: fewer than 100 paths)
ListCareerPathsResolve4b ==
    /\ handler = "part_004#2"
    /\ pc = "paths"
    /\ IF Len(store.careerPaths) = 0
       THEN /\ throw4b("No career paths found in database")
            /\ UNCHANGED writes
       ELSE IF /\ hasSurveyAnswers(body.surveyAnswers)
               /\ updateData(body.surveyAnswers) # {}
       THEN /\ writes' = Append(writes,
                            [profile |-> updateData(body.surveyAnswers)])
            /\ inflight' = {"updateDocument"}
            /\ pc' = "profile"
            /\ UNCHANGED responses
       ELSE /\ callOracle4b
            /\ UNCHANGED writes
    /\ UNCHANGED <<handler, now, body, store, timers, raceSettled, ai, rnd, logs>>

\* lines 538, 564, 986-996: a read rejects
ListDocumentsReject4b ==
    /\ handler = "part_004#2"
    /\ pc \in {"user", "paths"}
    /\ throw4b("store error")
    /\ UNCHANGED <<handler, now, body, store, timers, raceSettled, ai, rnd,
                   writes, logs>>

\* lines 687-697: the awaited write of the survey data settles; a failure
\* is logged
UpdateProfileSettle4b ==
    \E ok \in BOOLEAN :
    /\ handler = "part_004#2"
    /\ pc = "profile"
    /\ logs' = IF ok THEN logs ELSE logs \cup {"Error updating user profile"}
    /\ callOracle4b
    /\ UNCHANGED <<handler, now, body, store, timers, raceSettled, ai, rnd, writes>>

\* lines 919-968: the oracle replies, and the status write is called
GenerateContentResolve4b ==
    \E text \in OracleTexts4b :
    /\ handler = "part_004#2"
    /\ pc = "ai"
    /\ ai' = [settled |-> "reply", text |-> text]
    /\ IF parseRecommendations4b(text).threw
       THEN /\ throw4b(parseRecommendations4b(text).err)
            /\ UNCHANGED writes
       ELSE /\ writes' = Append(writes, [testTaken |-> TRUE])
            /\ inflight' = {"updateDocument"}
            /\ pc' = "update"
            /\ UNCHANGED responses
    /\ UNCHANGED <<handler, now, body, store, timers, raceSettled, rnd, logs>>

\* lines 919, 986-996: the oracle call rejects
GenerateContentReject4b ==
    /\ handler = "part_004#2"
    /\ pc = "ai"
    /\ ai' = [settled |-> "reject", text |-> NoText]
    /\ throw4b("fetch failed")
    /\ UNCHANGED <<handler, now, body, store, timers, raceSettled, rnd,
                   writes, logs>>

\* lines 961-984 and 986-996: the awaited status write settles
UpdateDocumentSettle4b ==
    \E ok \in BOOLEAN :
    /\ handler = "part_004#2"
    /\ pc = "update"
    /\ inflight' = {}
    /\ pc' = "done"
    /\ store' = IF ok THEN [store EXCEPT !.talents[1].testTaken = TRUE] ELSE store
    /\ responses' = Append(responses,
         IF ok
         THEN Success4b(parseRecommendations4b(ai.text).val,
                  filterRelevantCareerPaths(store.careerPaths,
                      userProfile4b(body.surveyAnswers, store.talents[1])))
         ELSE Failure4b("store error"))
    /\ UNCHANGED <<handler, now, body, timers, raceSettled, ai, rnd, writes, logs>>

Next4b ==
    \/ Request4b
    \/ ListUserResolve4b
    \/ ListCareerPathsResolve4b
    \/ ListDocumentsReject4b
    \/ UpdateProfileSettle4b
    \/ GenerateContentResolve4b
    \/ GenerateContentReject4b
    \/ UpdateDocumentSettle4b

Spec4b == Init4b /\ [][Next4b]_vars

---------------------------------------------------------------------------
(* The handlers side by side: a request is served by one of them *)

Init == Init1 \/ Init2 \/ Init4 \/ Init4b

Next == Next1 \/ Next2 \/ Next4 \/ Next4b

Spec == Init /\ [][Next]_vars

\* C15: when the stored profile has no careerStage (the payload of these
\* handlers carries none), the first handler of main.js and the first
\* handler of part_004 answer success:false and invoke neither the oracle
\* nor the fallback scorer nor the status write-back.
C15_MissingStageRejected ==
    (/\ handler \in {"main#1", "part_004#1"}
     /\ Len(store.talents) > 0
     /\ store.talents[1].careerStage = "")
    => /\ \A i \in DOMAIN responses : ~responses[i].success
       /\ pc \notin {"start", "fetch"} => Len(responses) = 1
       /\ "generateContent" \notin inflight
       /\ ai.settled = "none"
       /\ rnd = NoSeed
       /\ writes = <<>>


\* C16: in the first handler of part_004 and the second handler of main.js
\* a request with a missing required parameter, a talent that is not found
\* or an empty catalog is answered success:false, and on that request the
\* oracle, the fallback scorer and the status write-back never run.
C16_OracleOnlyAfterValidation ==
    LET missingParameter ==
            IF handler = "part_004#1"
            THEN body.talentId = "" \/ ~body.hasSurvey
            ELSE body.talentId = "" \/ body.careerStage = "" \/ ~body.hasResponses
    IN  (/\ handler \in {"part_004#1", "main#2"}
         /\ \/ missingParameter
            \/ Len(store.talents) = 0
            \/ Len(store.careerPaths) = 0)
        => /\ \A i \in DOMAIN responses : ~responses[i].success
           /\ pc = "done" => Len(responses) = 1
           /\ pc \notin {"currentPath", "ai"}
           /\ "generateContent" \notin inflight
           /\ "updateDocument" \notin inflight
           /\ ai.settled = "none"
           /\ rnd = NoSeed
           /\ writes = <<>>

\* the reads of a valid request resolved with an empty catalog and
\* executeCareerMatching answered with its error
C16_Witness ==
    /\ handler = "part_004#1"
    /\ body.talentId # ""
    /\ body.hasSurvey
    /\ Len(store.talents) > 0
    /\ Len(store.careerPaths) = 0
    /\ pc = "done"
    /\ Len(responses) = 1
    /\ responses[1].error = "No career paths available"


\* C17: in the second handler of main.js, when the catalog is non-empty
\* but preFilterCareers selects no career, the caller receives a success
\* envelope with an empty matches list once the matcher has run.
C17_EmptyFilterGivesNoMatches ==
    (/\ handler = "main#2"
     /\ pc = "done"
     /\ ai.settled # "none"
     /\ Len(documents2) > 0
     /\ preFilterCareers(documents2, body.responses, store.talents[1]) = <<>>)
    => /\ Len(responses) = 1
       /\ responses[1].success
       /\ responses[1].matches = <<>>


\* the status write (testTaken) has been called and has not settled
statusWriteInFlight ==
    /\ "updateDocument" \in inflight
    /\ writes # <<>>
    /\ "testTaken" \in DOMAIN writes[Len(writes)]

\* C18: in the first handler of main.js and in both handlers of part_004
\* the step in which the status write-back settles, resolved or rejected,
\* leaves the responses as they were: the response does not wait for the
\* write-back and is the same whatever its outcome; a rejection is logged.
C18_WriteBackFailureOnlyLogged ==
    [][(/\ handler \in {"main#1", "part_004#1", "part_004#2"}
        /\ statusWriteInFlight
        /\ ~statusWriteInFlight')
       => responses' = responses]_vars


scenarioSurvey == Survey(Arr(<<Python>>), Absent, Arr(<<Data>>), Arr(<<Technology>>), "")

\* C20: for the Pathfinder profile of the scenario and a 10-item catalog in
\* which p1 has industry Technology, requiredSkills {Python, SQL}, level
\* Entry and the other nine items have other skills and industries,
\* generateEnhancedFallbackMatches returns exactly 6 items, p1 first, with
\* p1's matchScore at least 85.
C20_HappyFallback ==
    (/\ handler = "fn"
     /\ pc = "done"
     /\ responses[1].fn = "part_004.generateEnhancedFallbackMatches"
     /\ body.surveyResponses = scenarioSurvey
     /\ store.talents[1].careerStage = "Pathfinder"
     /\ store.careerPaths \in {ScenarioCatalog(w) : w \in BOOLEAN})
    => /\ ~responses[1].threw
       /\ Len(responses[1].val) = 6
       /\ responses[1].val[1].careerPath = "p1"
       /\ responses[1].val[1].matchScore.t = "num"
       /\ responses[1].val[1].matchScore.n >= 85


\* C21: two runs of generateEnhancedFallbackMatches on the same survey
\* responses, catalog and talent return the same matches with the same
\* scores in the same order: what a run returned is what a run with any
\* other sequence of Math.random() draws returns.
C21_FallbackDeterministic ==
    (/\ handler = "fn"
     /\ pc = "done"
     /\ responses[1].fn = "part_004.generateEnhancedFallbackMatches")
    => \A seed \in Seeds :
         LET again == generateEnhancedFallbackMatches(body.surveyResponses,
                          store.careerPaths, store.talents[1], seed)
         IN  /\ again.threw = responses[1].threw
             /\ again.val = responses[1].val


\* C22: when the oracle replies with prose followed by a fenced payload
\* whose only candidate, p1, has a trailing comma before the closing
\* bracket and a score of 150, and p1 is in the catalog the matcher works
\* on, the matches returned by the second handler of main.js and by the
\* first handler of part_004 contain p1 with score 100.
C22_MalformedOutputRecovered ==
    LET catalog == IF handler = "main#2"
                   THEN preFilterCareers(documents2, body.responses, store.talents[1])
                   ELSE store.careerPaths
    IN  (/\ handler \in {"main#2", "part_004#1"}
         /\ pc = "done"
         /\ ai.settled = "reply"
         /\ ai.text = malformedText
         /\ "p1" \in idsOf(catalog)
         /\ Len(responses) = 1
         /\ responses[1].success)
        => \E i \in DOMAIN responses[1].matches :
              /\ responses[1].matches[i].careerPath = "p1"
              /\ responses[1].matches[i].matchScore = Num(100)


\* C24: for a survey whose list fields are arrays or absent, the output of
\* preFilterCareerPaths of part_004 (at most 25 items) and of
\* filterRelevantCareerPaths of part_003 (at most 20) is in descending
\* order of the pre-filter score, ties in catalog order, and no catalog
\* item left out scores strictly higher than an item of the output.
C24_PreFilterOrderedByScore ==
    LET sr == body.surveyResponses
        catalog == store.careerPaths
        out == responses[1].val
        of4 == responses[1].fn = "part_004.preFilterCareerPaths"
        userProfile == [currentSkills |-> asArray(sr.currentSkills),
                        interestedSkills |-> asArray(sr.skillsToLearn),
                        interests |-> asArray(sr.interests),
                        interestedFields |-> asArray(sr.interestedFields)]
        score(path) ==
            IF of4
            THEN preFilterScore2(orEmptyArray(sr.interestedFields),
                     orEmptyArray(sr.currentSkills), orEmptyArray(sr.interests), path)
            ELSE matchScore3(path, userProfile)
        at(id) == CHOOSE j \in DOMAIN catalog : catalog[j].id = id
    IN  (/\ handler = "fn"
         /\ pc = "done"
         /\ responses[1].fn \in {"part_004.preFilterCareerPaths",
                                 "part_003.filterRelevantCareerPaths"}
         /\ arrayTyped(sr))
        => /\ ~responses[1].threw
           /\ Len(out) <= (IF of4 THEN 25 ELSE 20)
           /\ \A i, j \in DOMAIN out :
                i < j => \/ score(catalog[at(out[i].id)]) > score(catalog[at(out[j].id)])
                         \/ /\ score(catalog[at(out[i].id)]) = score(catalog[at(out[j].id)])
                            /\ at(out[i].id) < at(out[j].id)
           /\ \A k \in DOMAIN catalog : \A i \in DOMAIN out :
                catalog[k].id \notin {out[j].id : j \in DOMAIN out}
                => score(catalog[k]) <= score(catalog[at(out[i].id)])


\* C25: with a jitter of zero, the score generateEnhancedFallbackMatches
\* gives a returned item is min(100, 25 * skill matches + 20 * interest
\* matches + 25 if the item's industry is among the interested fields
\* + 10 if the stage fits the level), for surveys whose list fields are
\* arrays or absent.
C25_FallbackScoreFormula ==
    LET sr == body.surveyResponses
        talent == store.talents[1]
        path(id) == store.careerPaths[CHOOSE j \in DOMAIN store.careerPaths :
                                         store.careerPaths[j].id = id]
        stageLevelFit(level) ==
            \/ talent.careerStage = "Pathfinder" /\ level = "Entry"
            \/ talent.careerStage = "Trailblazer" /\ level \in {"Entry", "Mid"}
            \/ talent.careerStage = "Horizon Changer" /\ level \in {"Mid", "Senior"}
        expected(p) ==
            Min(100,
                25 * overlapCount(p.requiredSkills, orEmptyArray(sr.currentSkills))
                + 20 * overlapCount(p.requiredInterests, orEmptyArray(sr.interests))
                + (IF arrIncludes(orEmptyArray(sr.interestedFields).a, p.industry)
                   THEN 25 ELSE 0)
                + (IF stageLevelFit(p.level) THEN 10 ELSE 0))
    IN  (/\ handler = "fn"
         /\ pc = "done"
         /\ responses[1].fn = "part_004.generateEnhancedFallbackMatches"
         /\ rnd = 0
         /\ arrayTyped(sr))
        => /\ ~responses[1].threw
           /\ \A i \in DOMAIN responses[1].val :
                responses[1].val[i].matchScore
                  = Num(expected(path(responses[1].val[i].careerPath)))



\* C26: in the list either generateEnhancedFallbackMatches returns, for any
\* jitter, an item whose jitter-free score is strictly lower than another
\* catalog item's is not placed ahead of that item and is not kept while
\* that item is cut.
C26_JitterOnlyBreaksTies ==
    LET sr == body.surveyResponses
        talent == store.talents[1]
        catalog == store.careerPaths
        out == responses[1].val
        of4 == responses[1].fn = "part_004.generateEnhancedFallbackMatches"
        base(p) == IF of4 THEN scorePath(sr, talent, p, 0).matchScore.n
                   ELSE scorePath0(sr, talent, p, 0).matchScore.n
        at(id) == CHOOSE j \in DOMAIN catalog : catalog[j].id = id
        kept == {out[i].careerPath : i \in DOMAIN out}
    IN  (/\ handler = "fn"
         /\ pc = "done"
         /\ responses[1].fn \in {"part_004.generateEnhancedFallbackMatches",
                                 "part_000.generateEnhancedFallbackMatches"}
         /\ ~responses[1].threw)
        => /\ \A i, j \in DOMAIN out :
                i < j => base(catalog[at(out[i].careerPath)])
                           >= base(catalog[at(out[j].careerPath)])
           /\ \A k \in DOMAIN catalog : \A i \in DOMAIN out :
                catalog[k].id \notin kept
                => base(catalog[k]) <= base(catalog[at(out[i].careerPath)])


\* C27: every match in a response of the first handler of part_004, and
\* every match generateEnhancedFallbackMatches of part_004 returns, has at
\* most 3 strengths, at most 3 development areas and at most 4
\* recommendations.
C27_ListsBounded ==
    LET bounded(m) == /\ m.strengths <= 3
                      /\ m.developmentAreas <= 3
                      /\ m.recommendations <= 4
    IN  /\ handler = "part_004#1"
           => \A r \in DOMAIN responses : \A i \in DOMAIN responses[r].matches :
                 bounded(responses[r].matches[i])
        /\ (/\ handler = "fn"
            /\ pc = "done"
            /\ responses[1].fn = "part_004.generateEnhancedFallbackMatches"
            /\ ~responses[1].threw)
           => \A i \in DOMAIN responses[1].val : bounded(responses[1].val[i])


\* C28: on a catalog of any size that does not change during the read, the
\* paginated read ends, has fetched pages up to and including the first
\* page shorter than 100, and has accumulated every document of the
\* catalog exactly once in store order.
C28_PaginatedReadComplete ==
    (handler = "read" /\ pc = "done")
    => /\ responses[1].read.allCareerPaths = store.careerPaths
       /\ responses[1].read.fetches = (Len(store.careerPaths) \div limit) + 1


\* C29: in the first handler of part_004 a request whose write-back with
\* testTaken: true has been issued is not answered with success:false.
C29_TestTakenOnlyOnSuccess ==
    (/\ handler = "part_004#1"
     /\ \E w \in DOMAIN writes :
          "testTaken" \in DOMAIN writes[w] /\ writes[w].testTaken)
    => \A r \in DOMAIN responses : responses[r].success


\* C30: in a response of the first handler of part_004 no two matches
\* reference the same career path.
C30_NoDuplicatePaths ==
    handler = "part_004#1"
    => \A r \in DOMAIN responses : \A i, j \in DOMAIN responses[r].matches :
          responses[r].matches[i].careerPath = responses[r].matches[j].careerPath
          => i = j


\* C23: when two requests of the first handler of part_004 are served by
\* one process with their steps interleaved in any order, each request is
\* answered at most once, and its response is one that the request gets
\* alone from its own body, the same store and the oracle outcome and
\* random draws it met; nothing of the other request enters it.
C23_ResponsesAsWhenAlone ==
    LET alone(b, a, seed) ==
          IF b.talentId = "" \/ ~b.hasSurvey
          THEN {Response(400, FALSE, "Missing required parameters", <<>>)}
          ELSE {CatchResponseOf(b, "Function execution timeout"),
                CatchResponseOf(b, "store error")}
               \cup
               (IF Len(store.careerPaths) = 0
                THEN {CatchResponseOf(b, "No career paths available")}
                ELSE IF Len(store.talents) = 0
                THEN {CatchResponseOf(b, "Talent not found")}
                ELSE IF a.settled = "none" THEN {}
                ELSE {envelopeOf(b, matched(res)) :
                        res \in IF a.settled = "skipped"
                                THEN {catchAIFailure(b.surveyResponses,
                                         store.careerPaths, store.talents[1], seed)}
                                ELSE afterAIRace(a.settled, a.text, store.talents[1],
                                         b.surveyResponses, store.careerPaths, seed)})
    IN  handler = "pair"
        => \A r \in Reqs :
             /\ Len(responses[r]) <= 1
             /\ \A i \in DOMAIN responses[r] :
                   responses[r][i] \in alone(body[r], ai[r], rnd[r])

\* both requests were answered from the fallback scorer, with different
\* matches, while the write-backs of both were still in flight
C23_Witness ==
    /\ handler = "pair"
    /\ \A r \in Reqs : /\ Len(responses[r]) = 1
                        /\ responses[r][1].success
                        /\ ai[r].settled = "reject"
                        /\ "updateDocument" \in inflight[r]
    /\ responses[1][1].matches # responses[2][1].matches

===========================================================================
